---- MODULE Spec2Model ----
(***************************************************************************)
(* Model of the fabricobo Python gateway (src/pythonapi).                  *)
(*                                                                         *)
(* Spec      one gateway process serving requests one after the other on   *)
(*           both entry paths: POST /api/agent (get_current_user and       *)
(*           post_agent) and POST /api/messages (handle_bot_message).      *)
(*           Every external call (identity provider, token vault, bot      *)
(*           connector, entitlement lookup, agent API) is one step whose   *)
(*           outcome is chosen by the environment.                         *)
(* SpecKeys  NCallers coroutines calling _get_signing_keys concurrently,   *)
(*           interleaved at its await points.                              *)
(***************************************************************************)
EXTENDS Naturals, Sequences, FiniteSets, TLC

None == "None"

(***************************************************************************)
(* Bounds of the model.                                                    *)
(***************************************************************************)
NCallers == 3
MaxCalls == 4
MaxRequests == 2

Callers == 1..NCallers

VARIABLES
  \* ---- process-wide state -------------------------------------------
  jwks_cache,      \* auth._jwks_cache: None or the cached JWKS document
  spa_obo_app,     \* main.obo_service._app: None or "app"
  obo_apps,        \* confidential clients constructed by OboTokenService._get_app
  bot_apps,        \* confidential clients constructed by BotConnectorClient._get_msal_app
  \* ---- calls of _get_signing_keys -----------------------------------
  kpc,             \* per caller: position in _get_signing_keys
  kret,            \* per caller: value returned by the call
  knet,            \* per caller: network requests made by the current call
  kwarm,           \* per caller: a call had already returned successfully when this one started
  ever_returned,   \* some call of _get_signing_keys has returned successfully
  disc_fetches,    \* discovery-document requests made so far
  jwks_fetches,    \* key-set requests made so far
  calls_started,   \* calls of _get_signing_keys started so far
  \* ---- the request being served -------------------------------------
  served,          \* requests accepted so far
  path,            \* "idle", "spa" or "bot"
  pc,              \* position in the handler
  request,         \* SPA input: Authorization header, credential, conversationId
  activity,        \* bot input: the inbound activity
  trace,           \* external calls made for this request, in order
  resp,            \* transport response: None or [status, body]
  user,            \* TokenClaims returned by get_current_user (None before)
  entitlement,     \* EntitlementResult in use
  obo_token,       \* downstream credential returned by exchange_token
  conversation_id, \* run_agent's conversation_id
  agent_response,  \* AgentResponse returned by run_agent
  user_token,      \* bot path: token returned by the token vault
  magic_code,      \* bot path: detected confirmation code
  correlation_id,  \* correlation id generated for the request
  connector_app,   \* bot path: this request's BotConnectorClient._app
  sign_in_link,    \* bot path: link returned by get_sign_in_resource
  exc,             \* bot path: exception caught at bot_handler.py 377
  member_idx,      \* bot path: position in the membersAdded loop
  question,        \* bot path: the stripped text of the message
  \* ---- coroutines on the event loop ---------------------------------
  waiting,         \* per coroutine: the network call it is waiting on, or None
  running,         \* the coroutine that holds the loop's thread, 0 when none does
  \* ---- principal extraction -----------------------------------------
  claims,          \* the claim set of the credential at hand
  spa_principal,   \* [upn, oid] read by TokenClaims.__init__
  bot_principal    \* [upn, oid] read by handle_bot_message

procVars == <<jwks_cache, spa_obo_app, obo_apps, bot_apps>>
keyVars  == <<kpc, kret, knet, kwarm, ever_returned, disc_fetches, jwks_fetches, calls_started>>
reqVars  == <<served, path, pc, request, activity, trace, resp, user, entitlement,
              obo_token, conversation_id, agent_response, user_token, magic_code,
              correlation_id, connector_app, sign_in_link, exc, member_idx, question>>
loopVars  == <<waiting, running>>
claimVars == <<claims, spa_principal, bot_principal>>
sideVars  == <<loopVars, claimVars>>
vars     == <<procVars, keyVars, reqVars, sideVars>>

(***************************************************************************)
(* Signing keys.  A JWKS document is named; JwksKeys gives the key ids of  *)
(* its "keys" array.  The provider may publish a second key between two    *)
(* fetches.                                                                *)
(***************************************************************************)
Kids == {"kidA", "kidB", "kidX"}
JwksDocs == {"jwks1", "jwks2"}
JwksKeys(doc) == IF doc = "jwks1" THEN {"kidA"}
                 ELSE IF doc = "jwks2" THEN {"kidA", "kidB"}
                 ELSE {}

(***************************************************************************)
(* Credentials.  A bearer credential is described by what the validator    *)
(* reads of it: whether its header parses (wf), the key id and algorithm   *)
(* of its header, whether its signature verifies under the key its kid     *)
(* names, whether it is expired, and its iss and aud claims.               *)
(***************************************************************************)
Issuers   == {"iss_v2", "iss_v1", "iss_tenant", "iss_other"}
Audiences == {"aud_api", "aud_client_id", "aud_api_client_id", "aud_other"}
Algs      == {"RS256", "HS256"}

NullToken == [wf |-> FALSE, kid |-> None, alg |-> None, sig |-> FALSE,
              exp |-> FALSE, iss |-> None, aud |-> None]
MalformedToken == [wf |-> FALSE, kid |-> "kidX", alg |-> "RS256", sig |-> FALSE,
                   exp |-> FALSE, iss |-> "iss_other", aud |-> "aud_other"]
Tokens == {MalformedToken} \cup
          [wf : {TRUE}, kid : Kids, alg : Algs, sig : BOOLEAN, exp : BOOLEAN,
           iss : Issuers, aud : Audiences]

\* POST /api/agent: the Authorization header and the AgentRequest body
SpaRequests ==
  [auth : {"missing", "basic"}, token : {NullToken}, conversation_id : {None, "conv_in"}]
  \cup [auth : {"bearer"}, token : Tokens, conversation_id : {None, "conv_in"}]
NoRequest == [auth |-> None, token |-> NullToken, conversation_id |-> None]

(***************************************************************************)
(* models.py                                                               *)
(***************************************************************************)
\* EntitlementResult (models.py 56-78)
EntitlementResult(upn, oid, rep_code, role, is_authorized) ==
  [upn |-> upn, oid |-> oid, rep_code |-> rep_code, role |-> role,
   is_authorized |-> is_authorized]
NoEntitlement == EntitlementResult(None, None, None, None, FALSE)

\* AgentResponse (models.py 81-100); tool_evidence is the sequence of the
\* types of its ToolUsageSummary entries, <<>> standing for None
AgentResponse(status, corr, conv, response_id, answer, tools, error) ==
  [status |-> status, correlation_id |-> corr, conversation_id |-> conv,
   response_id |-> response_id, assistant_answer |-> answer,
   tool_evidence |-> tools, error |-> error]
NoResponse == AgentResponse(None, 0, None, None, None, <<>>, None)

\* TokenClaims (auth.py 62-77) as built at main.py 153-154
TokenClaims(token) == [upn |-> "user_upn", oid |-> "user_oid", raw_token |-> token]
NoUser == [upn |-> None, oid |-> None, raw_token |-> NullToken]

(***************************************************************************)
(* Bot activities.  A text is the sequence of its characters; MissingText  *)
(* stands for an activity without a "text" member.                         *)
(***************************************************************************)
Digits == {"0", "1", "2", "3", "4", "5", "6", "7", "8", "9"}
MissingText == <<"null">>
Texts == { <<>>, <<" ">>,
           <<"4", "8", "2", "9", "1", "3">>,
           <<" ", "4", "8", "2", "9", "1", "3", " ">>,
           <<"1", "2", "3", "4", "5", "6", "7">>,
           <<"a", "b", "c", "d", "e", "f">> }

Members == { <<>>, <<"bot">>, <<"u1">>, <<"bot", "u1">>, <<"u1", "bot">>, <<"u1", "u2">> }

Activity(json, type, text, serviceUrl, membersAdded) ==
  [json |-> json, type |-> type, text |-> text, serviceUrl |-> serviceUrl,
   membersAdded |-> membersAdded,
   id |-> "act_1", from |-> "user_1", recipient |-> "bot",
   conversation |-> "conv_t", channelId |-> "msteams"]
NoActivity == Activity(FALSE, None, MissingText, "", <<>>)
Activities ==
  {NoActivity}
  \cup {Activity(TRUE, "message", t, u, <<>>) : t \in Texts \cup {MissingText}, u \in {"", "svc"}}
  \cup {Activity(TRUE, "conversationUpdate", MissingText, u, m) : u \in {"", "svc"}, m \in Members}
  \cup {Activity(TRUE, "typing", MissingText, u, <<>>) : u \in {"", "svc"}}

\* str.strip()
RECURSIVE LStrip(_)
LStrip(t) == IF t # <<>> /\ Head(t) = " " THEN LStrip(Tail(t)) ELSE t
RECURSIVE RStrip(_)
RStrip(t) == IF t # <<>> /\ t[Len(t)] = " " THEN RStrip(SubSeq(t, 1, Len(t) - 1)) ELSE t
Strip(t) == RStrip(LStrip(t))

\* str.isdigit()
IsDigit(t) == t # <<>> /\ \A i \in 1..Len(t) : t[i] \in Digits

\* variant: the text is not trimmed
QuestionOf_NoStrip(body) == IF body.text = MissingText THEN <<>> ELSE body.text

\* bot_handler.py 273: (body.get("text") or "").strip()
QuestionOf(body) == Strip(IF body.text = MissingText THEN <<>> ELSE body.text)

\* bot_handler.py 290-292; <<>> stands for None
MagicCodeOf(q) == IF Len(q) = 6 /\ IsDigit(q) THEN q ELSE <<>>

\* tokens the token vault may hold for a user: one the gateway's validator
\* would accept, and one that does not parse
VaultTokens ==
  { [wf |-> TRUE, kid |-> "kidA", alg |-> "RS256", sig |-> TRUE, exp |-> FALSE,
     iss |-> "iss_v1", aud |-> "aud_api"],
    MalformedToken }

\* an exception caught at bot_handler.py 377 and whether "consent" occurs in
\* its text (line 378)
Exception(type, consent) == [type |-> type, consent |-> consent]
NoException == Exception(None, FALSE)

(***************************************************************************)
(* Transport responses.  kind is "empty" (no body), "detail" (the detail   *)
(* of an HTTPException), "envelope" (an AgentResponse with its entitlement *)
(* block) or "server_error" (the framework's answer to an exception no     *)
(* handler caught).                                                        *)
(***************************************************************************)
NoDetail == [status |-> None, msg |-> None, code |-> None, description |-> None]
Detail(status, msg, code, description) ==
  [status |-> status, msg |-> msg, code |-> code, description |-> description]
HttpResponse(status, kind, detail, envelope, ent) ==
  [status |-> status, kind |-> kind, detail |-> detail, envelope |-> envelope,
   entitlement |-> ent]
NoHttpResponse == HttpResponse(0, None, NoDetail, NoResponse, NoEntitlement)
HTTPException(status, detail) == HttpResponse(status, "detail", detail, NoResponse, NoEntitlement)
Unhandled == HttpResponse(500, "server_error", NoDetail, NoResponse, NoEntitlement)

(***************************************************************************)
(* _get_signing_keys (auth.py 38-59), one action per stretch between two   *)
(* await points.                                                           *)
(***************************************************************************)
\* variant: a call that starts the fetch without testing the cache first
GetSigningKeys_Enter_NoCacheTest(c) ==
  /\ calls_started' = calls_started + 1
  /\ kwarm' = [kwarm EXCEPT ![c] = ever_returned]
  /\ knet' = [knet EXCEPT ![c] = 0]
  /\ kpc' = [kpc EXCEPT ![c] = "discovery"]
  /\ kret' = [kret EXCEPT ![c] = None]
  /\ UNCHANGED <<jwks_cache, disc_fetches, jwks_fetches, ever_returned>>

\* lines 43-50: the cache test, up to the first await of the discovery GET
GetSigningKeys_Enter(c) ==
  /\ calls_started' = calls_started + 1
  /\ kwarm' = [kwarm EXCEPT ![c] = ever_returned]
  /\ knet' = [knet EXCEPT ![c] = 0]
  /\ IF jwks_cache # None
       THEN /\ kpc' = [kpc EXCEPT ![c] = "returned"]
            /\ kret' = [kret EXCEPT ![c] = jwks_cache]
            /\ ever_returned' = TRUE
       ELSE /\ kpc' = [kpc EXCEPT ![c] = "discovery"]
            /\ kret' = [kret EXCEPT ![c] = None]
            /\ UNCHANGED ever_returned
  /\ UNCHANGED <<jwks_cache, disc_fetches, jwks_fetches>>

\* variant: a failed discovery GET is sent again inside the same call
GetSigningKeys_Discovery_Retry(c) ==
  /\ kpc[c] = "discovery"
  /\ disc_fetches' = disc_fetches + 1
  /\ knet' = [knet EXCEPT ![c] = @ + 1]
  /\ \E ok \in BOOLEAN :
       kpc' = [kpc EXCEPT ![c] = IF ok THEN "jwks" ELSE "discovery"]
  /\ UNCHANGED <<jwks_cache, kret, kwarm, ever_returned, jwks_fetches, calls_started>>
  /\ UNCHANGED <<spa_obo_app, obo_apps, bot_apps, reqVars>>
  /\ UNCHANGED sideVars

\* lines 51-55: the discovery response; raise_for_status or a missing
\* "jwks_uri" raises, otherwise the key-set GET is awaited
GetSigningKeys_Discovery(c) ==
  /\ kpc[c] = "discovery"
  /\ disc_fetches' = disc_fetches + 1
  /\ knet' = [knet EXCEPT ![c] = @ + 1]
  /\ \E ok \in BOOLEAN :
       kpc' = [kpc EXCEPT ![c] = IF ok THEN "jwks" ELSE "failed"]
  /\ UNCHANGED <<jwks_cache, kret, kwarm, ever_returned, jwks_fetches, calls_started>>
  /\ UNCHANGED <<spa_obo_app, obo_apps, bot_apps, reqVars>>
  /\ UNCHANGED sideVars

\* variant: a failed key-set GET restarts the fetch inside the same call
GetSigningKeys_Jwks_Retry(c) ==
  /\ kpc[c] = "jwks"
  /\ jwks_fetches' = jwks_fetches + 1
  /\ knet' = [knet EXCEPT ![c] = @ + 1]
  /\ \E r \in JwksDocs \cup {"fail"} :
       IF r = "fail"
         THEN /\ kpc' = [kpc EXCEPT ![c] = IF knet[c] < 3 THEN "discovery" ELSE "failed"]
              /\ UNCHANGED jwks_cache
         ELSE /\ kpc' = [kpc EXCEPT ![c] = "closing"]
              /\ jwks_cache' = r
  /\ UNCHANGED <<kret, kwarm, ever_returned, disc_fetches, calls_started>>
  /\ UNCHANGED <<spa_obo_app, obo_apps, bot_apps, reqVars>>
  /\ UNCHANGED sideVars

\* lines 55-57: the key-set response; on success the global is assigned and
\* the client is closed (an await) before line 59 reads the global again
GetSigningKeys_Jwks(c) ==
  /\ kpc[c] = "jwks"
  /\ jwks_fetches' = jwks_fetches + 1
  /\ knet' = [knet EXCEPT ![c] = @ + 1]
  /\ \E r \in JwksDocs \cup {"fail"} :
       IF r = "fail"
         THEN /\ kpc' = [kpc EXCEPT ![c] = "failed"]
              /\ UNCHANGED jwks_cache
         ELSE /\ kpc' = [kpc EXCEPT ![c] = "closing"]
              /\ jwks_cache' = r
  /\ UNCHANGED <<kret, kwarm, ever_returned, disc_fetches, calls_started>>
  /\ UNCHANGED <<spa_obo_app, obo_apps, bot_apps, reqVars>>
  /\ UNCHANGED sideVars

\* line 59: return _jwks_cache
GetSigningKeys_Return(c) ==
  /\ kpc[c] = "closing"
  /\ kpc' = [kpc EXCEPT ![c] = "returned"]
  /\ kret' = [kret EXCEPT ![c] = jwks_cache]
  /\ ever_returned' = TRUE
  /\ UNCHANGED <<jwks_cache, knet, kwarm, disc_fetches, jwks_fetches, calls_started>>
  /\ UNCHANGED <<spa_obo_app, obo_apps, bot_apps, reqVars>>
  /\ UNCHANGED sideVars

inVars   == <<served, path, request, activity, correlation_id>>
botLoc   == <<user_token, magic_code, connector_app, sign_in_link, exc, member_idx,
              question>>
agentLoc == <<conversation_id, agent_response>>

(***************************************************************************)
(* Credential validation.                                                  *)
(***************************************************************************)
\* main.py 131-134
GcuValidIssuers == {"iss_v2", "iss_v1"}

\* variant: a decode that does not verify the signature
GcuDecode_NoSignature(token) ==
  token.alg = "RS256" /\ ~token.exp /\ token.aud = "aud_api"

\* main.py 136-142: jwt.decode with algorithms=["RS256"], audience=azure_ad.audience
\* and issuer verification switched off
GcuDecode(token) ==
  token.alg = "RS256" /\ token.sig /\ ~token.exp /\ token.aud = "aud_api"

\* variant: a credential whose kid matches no key is decoded all the same
GetCurrentUserOutcome_NoKeyTest(token, jwks) ==
  IF ~token.wf THEN "invalid_token"
  ELSE IF ~(token.alg = "RS256" /\ token.sig /\ ~token.exp /\ token.aud = "aud_api")
    THEN "invalid_token"
  ELSE IF token.iss \notin {"iss_v2", "iss_v1"} THEN "invalid_token"
  ELSE "ok"

\* main.py 116-158: the outcome of get_current_user once the key set is known
GetCurrentUserOutcome(token, jwks) ==
  IF ~token.wf THEN "invalid_token"
  ELSE IF token.kid \notin JwksKeys(jwks) THEN "key_not_found"
  ELSE IF ~GcuDecode(token) THEN "invalid_token"
  ELSE IF token.iss \notin GcuValidIssuers THEN "invalid_token"
  ELSE "ok"

\* auth.py 115-119 and 122-126
ValidIssuers   == {"iss_v2", "iss_v1", "iss_tenant"}
ValidAudiences == {"aud_api", "aud_client_id", "aud_api_client_id"}

\* auth.py 142-149: jwt.decode with the audience and issuer lists it is given
VtDecode(token) ==
  /\ token.alg = "RS256" /\ token.sig /\ ~token.exp
  /\ token.aud \in ValidAudiences
  /\ token.iss \in ValidIssuers

\* auth.py 100-155: the outcome of validate_token once the key set is known
ValidateTokenOutcome(token, jwks) ==
  IF ~token.wf THEN "invalid_token"
  ELSE IF token.kid \notin JwksKeys(jwks) THEN "key_not_found"
  ELSE IF ~VtDecode(token) THEN "invalid_token"
  ELSE "ok"

\* the HTTPException raised for a failed validation (main.py 126, 158; auth.py 112, 155)
ValidationError(outcome) ==
  HTTPException(401, Detail(None, outcome, None, None))

(***************************************************************************)
(* OBO exchange (auth.py 192-238).                                         *)
(***************************************************************************)
\* what the identity provider's client library hands back
OboResults ==
  {[access_token |-> "obo_tok", error |-> None, error_description |-> None]}
  \cup [access_token : {None},
         error : {None, "interaction_required", "invalid_grant"},
         error_description : {None, "desc", "desc_consent"}]

\* variant: an exchange without the interaction_required branch
ExchangeToken_NoChallenge(result) ==
  IF result.access_token # None
    THEN [ok |-> TRUE, access_token |-> result.access_token, raised |-> None,
          exception |-> NoHttpResponse]
    ELSE [ok |-> FALSE, access_token |-> None, raised |-> "HTTPException",
          exception |-> HTTPException(500,
             Detail("obo_error", "failed_to_acquire",
                    IF result.error = None THEN "unknown_error" ELSE result.error,
                    IF result.error_description = None THEN "No description"
                    ELSE result.error_description))]

\* auth.py 212-238: the access token, or the HTTPException raised
ExchangeToken(result) ==
  IF result.access_token # None
    THEN [ok |-> TRUE, access_token |-> result.access_token, raised |-> None,
          exception |-> NoHttpResponse]
    ELSE LET error == IF result.error = None THEN "unknown_error" ELSE result.error
             error_description == IF result.error_description = None
                                    THEN "No description"
                                    ELSE result.error_description
         IN IF error = "interaction_required"
              THEN [ok |-> FALSE, access_token |-> None, raised |-> "HTTPException",
                    exception |-> HTTPException(401,
                       Detail("obo_challenge", "requires_user_interaction", None,
                              error_description))]
              ELSE [ok |-> FALSE, access_token |-> None, raised |-> "HTTPException",
                    exception |-> HTTPException(500,
                       Detail("obo_error", "failed_to_acquire", error,
                              error_description))]

\* how the call at auth.py 207 ends: the library returns a result, or raises
NoOboResult == [access_token |-> None, error |-> None, error_description |-> None]
OboCallOutcomes ==
  [raised : {FALSE}, result : OboResults]
  \cup {[raised |-> TRUE, result |-> NoOboResult]}

\* an exception of the library leaves exchange_token as it is
OboLibraryError ==
  [ok |-> FALSE, access_token |-> None, raised |-> "Exception",
   exception |-> NoHttpResponse]

\* auth.py 192-238
Exchange(call) ==
  IF call.raised THEN OboLibraryError ELSE ExchangeToken(call.result)

\* main.py 241-255: what post_agent raises for a failed exchange
PostAgentOboError(x) ==
  IF x.raised = "HTTPException"
    THEN x.exception
    ELSE HTTPException(500, Detail("obo_error", "failed_to_acquire", None,
                                   "library_error"))

(***************************************************************************)
(* Entitlement lookup (entitlement_service.py 29-31, 53-72).               *)
(***************************************************************************)
EntitlementOutcomes == {"known", "unknown", "unauthorized", "raise"}

GetEntitlement(o, upn, oid) ==
  IF o = "known" THEN EntitlementResult(upn, oid, "REP001", "Advisor", TRUE)
  ELSE IF o = "unknown" THEN EntitlementResult(upn, oid, None, None, TRUE)
  ELSE EntitlementResult(upn, oid, None, None, FALSE)

(***************************************************************************)
(* run_agent (foundry_agent_service.py 61-166): one step per call of the   *)
(* agent API.  Shared by both entry paths.                                 *)
(***************************************************************************)
CallFailures == {"http_status_error", "timeout", "transport_error", "bad_body"}

\* output arrays of a response body, by the kinds of their items: an assistant
\* message with or without text, the three tool-call types, another type
\* holding "fabric", and a type the parser skips
Outputs == { <<>>,
             <<"assistant_text">>,
             <<"assistant_empty">>,
             <<"fabric_dataagent_preview_call", "assistant_text">>,
             <<"assistant_text", "function_call">>,
             <<"tool_call", "fabric_other", "assistant_text">>,
             <<"fabric_dataagent_preview_call">>,
             <<"reasoning", "assistant_text", "assistant_empty">> }

ResponseJsons ==
  [status : {"completed"}, id : {"resp_1"}, output : Outputs]
  \cup [status : {"failed", "incomplete", "absent"}, id : {"resp_1"},
        output : {<<>>, <<"assistant_text">>}]

\* no response body: the POST did not answer with one
NoResponseJson == [status |-> "absent", id |-> None, output |-> <<>>]

\* variant: tool-call items of the output array are passed over
RECURSIVE ParseItems_NoTools(_, _, _)
ParseItems_NoTools(output, answer, tool_evidence) ==
  IF output = <<>> THEN [answer |-> answer, tool_evidence |-> tool_evidence]
  ELSE IF Head(output) = "assistant_text"
    THEN ParseItems_NoTools(Tail(output), "answer", tool_evidence)
    ELSE ParseItems_NoTools(Tail(output), answer, tool_evidence)

\* foundry_agent_service.py 304-349, one item of the output array
RECURSIVE ParseItems(_, _, _)
ParseItems(output, answer, tool_evidence) ==
  IF output = <<>> THEN [answer |-> answer, tool_evidence |-> tool_evidence]
  ELSE LET item == Head(output) IN
    IF item = "assistant_text"
      THEN ParseItems(Tail(output), "answer", tool_evidence)
    ELSE IF item \in {"fabric_dataagent_preview_call", "tool_call", "function_call"}
      THEN ParseItems(Tail(output), answer, Append(tool_evidence, item))
    ELSE IF item = "fabric_other"
      THEN ParseItems(Tail(output), answer, Append(tool_evidence, item))
    ELSE ParseItems(Tail(output), answer, tool_evidence)

\* foundry_agent_service.py 290-359
ParseOutput(response_json) == ParseItems(response_json.output, None, <<>>)

\* variant: the output array is parsed whatever the status
ResponseResult_ParsesAnyStatus(response_json, corr, conv) ==
  LET status == IF response_json.status = "absent" THEN "unknown"
                ELSE response_json.status
      parsed == ParseOutput(response_json)
  IN AgentResponse(status, corr, conv, response_json.id, parsed.answer,
                   parsed.tool_evidence,
                   IF status # "completed" THEN "ended_with_status" ELSE None)

\* foundry_agent_service.py 99-139: the AgentResponse built from the response body
ResponseResult(response_json, corr, conv) ==
  LET status == IF response_json.status = "absent" THEN "unknown"
                ELSE response_json.status
  IN IF status # "completed"
       THEN AgentResponse(status, corr, conv, response_json.id, None, <<>>,
                          "ended_with_status")
       ELSE LET parsed == ParseOutput(response_json)
            IN AgentResponse("completed", corr, conv, response_json.id,
                             parsed.answer, parsed.tool_evidence, None)

\* variant: only the HTTP status error is caught
Caught_OnlyStatusError(o) == o = "http_status_error"

\* foundry_agent_service.py 141-166: the two exceptions run_agent catches
Caught(o) == o \in {"http_status_error", "timeout"}

FailureResult(o, corr, conv) ==
  IF o = "http_status_error"
    THEN AgentResponse("error", corr, conv, None, None, <<>>, "foundry_api_error")
    ELSE AgentResponse("timeout", corr, conv, None, None, <<>>, "foundry_timed_out")

\* lines 84-87 and 172-189: POST openai/conversations
RunAgent_CreateConversation ==
  /\ pc = "run_agent"
  /\ conversation_id = None
  /\ \E o \in CallFailures \cup {"ok"} :
       /\ trace' = Append(trace, [op |-> "create_conversation", cred |-> obo_token,
                                  outcome |-> o])
       /\ IF o = "ok"
            THEN /\ conversation_id' = "conv_new"
                 /\ pc' = "responses"
                 /\ UNCHANGED agent_response
            ELSE IF Caught(o)
              THEN /\ agent_response' = FailureResult(o, correlation_id, conversation_id)
                   /\ pc' = "agent_returned"
                   /\ UNCHANGED conversation_id
              ELSE /\ pc' = "agent_raised"
                   /\ UNCHANGED <<conversation_id, agent_response>>
  /\ UNCHANGED <<procVars, keyVars, inVars, botLoc, resp, user, entitlement, obo_token>>
  /\ UNCHANGED sideVars

\* what run_agent does with the outcome of POST openai/responses
AfterResponses(o, response_json) ==
  IF o = "ok"
    THEN /\ agent_response' = ResponseResult(response_json, correlation_id, conversation_id)
         /\ pc' = "agent_returned"
  ELSE IF Caught(o)
    THEN /\ agent_response' = FailureResult(o, correlation_id, conversation_id)
         /\ pc' = "agent_returned"
    ELSE /\ pc' = "agent_raised"
         /\ UNCHANGED agent_response

\* lines 92-139 and 191-288: POST openai/responses and the parse of its body
RunAgent_Responses ==
  /\ \/ pc = "responses"
     \/ pc = "run_agent" /\ conversation_id # None
  /\ \E o \in CallFailures \cup {"ok"} :
       \E response_json \in IF o = "ok" THEN ResponseJsons ELSE {NoResponseJson} :
         /\ trace' = Append(trace, [op |-> "responses", cred |-> obo_token,
                                    outcome |-> o, body |-> response_json])
         /\ AfterResponses(o, response_json)
  /\ UNCHANGED <<procVars, keyVars, inVars, botLoc, resp, user, entitlement, obo_token,
                 conversation_id>>
  /\ UNCHANGED sideVars

(***************************************************************************)
(* POST /api/agent: get_current_user (main.py 103-158) and post_agent      *)
(* (main.py 193-278).                                                      *)
(***************************************************************************)
SpaReceive ==
  /\ pc = "idle"
  /\ served < MaxRequests
  /\ served' = served + 1
  /\ correlation_id' = served + 1
  /\ path' = "spa"
  /\ pc' = "get_current_user"
  /\ \E r \in SpaRequests : request' = r
  /\ UNCHANGED <<procVars, keyVars, activity, botLoc, agentLoc, trace, resp, user,
                 entitlement, obo_token>>
  /\ UNCHANGED sideVars

\* variant: the signing keys are asked for before the header is looked at
GetCurrentUser_Begin_KeysFirst ==
  /\ path = "spa" /\ pc = "get_current_user"
  /\ GetSigningKeys_Enter(1)
  /\ pc' = "gcu_keys"
  /\ UNCHANGED resp
  /\ UNCHANGED <<spa_obo_app, obo_apps, bot_apps, inVars, botLoc, agentLoc, trace, user,
                 entitlement, obo_token>>
  /\ UNCHANGED sideVars

\* main.py 107-117: the header test, then the call of _get_signing_keys
GetCurrentUser_Begin ==
  /\ path = "spa" /\ pc = "get_current_user"
  /\ IF request.auth # "bearer"
       THEN /\ resp' = HTTPException(401, Detail(None, "missing_auth_header", None, None))
            /\ pc' = "done"
            /\ UNCHANGED <<keyVars, jwks_cache>>
       ELSE /\ GetSigningKeys_Enter(1)
            /\ pc' = "gcu_keys"
            /\ UNCHANGED resp
  /\ UNCHANGED <<spa_obo_app, obo_apps, bot_apps, inVars, botLoc, agentLoc, trace, user,
                 entitlement, obo_token>>
  /\ UNCHANGED sideVars

\* main.py 117: _get_signing_keys raised; the error is neither a JWTError nor
\* an HTTPException and leaves get_current_user
GetCurrentUser_KeysFailed ==
  /\ path = "spa" /\ pc = "gcu_keys" /\ kpc[1] = "failed"
  /\ resp' = Unhandled
  /\ pc' = "done"
  /\ UNCHANGED <<procVars, keyVars, inVars, botLoc, agentLoc, trace, user, entitlement,
                 obo_token>>
  /\ UNCHANGED sideVars

\* main.py 118-158
GetCurrentUser_Validate ==
  /\ path = "spa" /\ pc = "gcu_keys" /\ kpc[1] = "returned"
  /\ LET outcome == GetCurrentUserOutcome(request.token, kret[1])
     IN IF outcome = "ok"
          THEN /\ user' = TokenClaims(request.token)
               /\ pc' = "post_agent"
               /\ UNCHANGED resp
          ELSE /\ resp' = ValidationError(outcome)
               /\ pc' = "done"
               /\ UNCHANGED user
  /\ UNCHANGED <<procVars, keyVars, inVars, botLoc, agentLoc, trace, entitlement, obo_token>>
  /\ UNCHANGED sideVars

\* variant: the hint used after a failed lookup denies the caller
DefaultEntitlement_Denied(upn, oid) == EntitlementResult(upn, oid, None, None, FALSE)

\* main.py 223-229: the hint used when the lookup raised
DefaultEntitlement(upn, oid) == EntitlementResult(upn, oid, None, None, TRUE)

\* variant: a hint that says "not authorized" ends the request with 403
PostAgent_Entitlement_Enforced ==
  /\ path = "spa" /\ pc = "post_agent"
  /\ \E o \in EntitlementOutcomes :
       LET hint == IF o = "raise" THEN DefaultEntitlement(user.upn, user.oid)
                   ELSE GetEntitlement(o, user.upn, user.oid)
       IN /\ trace' = Append(trace, [op |-> "entitlement", cred |-> None, outcome |-> o])
          /\ entitlement' = hint
          /\ IF hint.is_authorized
               THEN pc' = "spa_obo" /\ UNCHANGED resp
               ELSE /\ pc' = "done"
                    /\ resp' = HTTPException(403, Detail(None, "forbidden", None, None))
  /\ UNCHANGED <<procVars, keyVars, inVars, botLoc, agentLoc, user, obo_token>>
  /\ UNCHANGED sideVars

\* main.py 201-229
PostAgent_Entitlement ==
  /\ path = "spa" /\ pc = "post_agent"
  /\ \E o \in EntitlementOutcomes :
       /\ trace' = Append(trace, [op |-> "entitlement", cred |-> None, outcome |-> o])
       /\ entitlement' = IF o = "raise"
                            THEN DefaultEntitlement(user.upn, user.oid)
                            ELSE GetEntitlement(o, user.upn, user.oid)
  /\ pc' = "spa_obo"
  /\ UNCHANGED <<procVars, keyVars, inVars, botLoc, agentLoc, resp, user, obo_token>>
  /\ UNCHANGED sideVars

\* variant: a failed exchange is passed over and the agent is called anyway
PostAgent_Obo_Lenient ==
  /\ path = "spa" /\ pc = "spa_obo"
  /\ user.raw_token # NullToken
  /\ spa_obo_app' = "app"
  /\ obo_apps' = IF spa_obo_app = None THEN obo_apps + 1 ELSE obo_apps
  /\ \E call \in OboCallOutcomes :
       /\ trace' = Append(trace, [op |-> "obo", cred |-> user.raw_token, call |-> call])
       /\ obo_token' = IF Exchange(call).ok THEN Exchange(call).access_token ELSE None
       /\ conversation_id' = request.conversation_id
       /\ pc' = "run_agent"
  /\ UNCHANGED <<jwks_cache, bot_apps, keyVars, inVars, botLoc, agent_response, user,
                 entitlement, resp>>
  /\ UNCHANGED sideVars

\* main.py 234-255 with OboTokenService._get_app (auth.py 181-190)
PostAgent_Obo ==
  /\ path = "spa" /\ pc = "spa_obo"
  /\ IF user.raw_token = NullToken
       THEN /\ resp' = HTTPException(500, Detail(None, "raw_token_unavailable", None, None))
            /\ pc' = "done"
            /\ UNCHANGED <<spa_obo_app, obo_apps, trace, obo_token, conversation_id>>
       ELSE /\ spa_obo_app' = "app"
            /\ obo_apps' = IF spa_obo_app = None THEN obo_apps + 1 ELSE obo_apps
            /\ \E call \in OboCallOutcomes :
                 /\ trace' = Append(trace, [op |-> "obo", cred |-> user.raw_token,
                                            call |-> call])
                 /\ IF Exchange(call).ok
                      THEN /\ obo_token' = Exchange(call).access_token
                           /\ conversation_id' = request.conversation_id
                           /\ pc' = "run_agent"
                           /\ UNCHANGED resp
                      ELSE /\ resp' = PostAgentOboError(Exchange(call))
                           /\ pc' = "done"
                           /\ UNCHANGED <<obo_token, conversation_id>>
  /\ UNCHANGED <<jwks_cache, bot_apps, keyVars, inVars, botLoc, agent_response, user,
                 entitlement>>
  /\ UNCHANGED sideVars

\* main.py 260-278: run_agent returned
PostAgent_Return ==
  /\ path = "spa" /\ pc = "agent_returned"
  /\ resp' = HttpResponse(200, "envelope", NoDetail, agent_response, entitlement)
  /\ pc' = "done"
  /\ UNCHANGED <<procVars, keyVars, inVars, botLoc, agentLoc, trace, user, entitlement,
                 obo_token>>
  /\ UNCHANGED sideVars

\* main.py 260: an exception leaving run_agent leaves post_agent too
PostAgent_AgentRaised ==
  /\ path = "spa" /\ pc = "agent_raised"
  /\ resp' = Unhandled
  /\ pc' = "done"
  /\ UNCHANGED <<procVars, keyVars, inVars, botLoc, agentLoc, trace, user, entitlement,
                 obo_token>>
  /\ UNCHANGED sideVars

(***************************************************************************)
(* Reply Channel Client (bot_handler.py 40-136, 412-449).                  *)
(***************************************************************************)
\* variant: a reply that keeps the sender and the recipient of the activity
CreateReply_NoSwap(body, text) ==
  [type |-> "message", text |-> text, from |-> body.from, recipient |-> body.recipient,
   conversation |-> body.conversation, replyToId |-> body.id, attachments |-> <<>>]

\* bot_handler.py 412-421
CreateReply(body, text) ==
  [type |-> "message", text |-> text, from |-> body.recipient, recipient |-> body.from,
   conversation |-> body.conversation, replyToId |-> body.id, attachments |-> <<>>]

\* how one send_activity call ends: the POST answered below 400, answered
\* 400 or above, _get_bot_token raised, or the POST raised
SendOutcomes == {"sent", "http_error", "token_error", "transport_error"}

\* bot_handler.py 86-120 with _get_bot_token (64-84): the calls made and
\* whether an exception leaves send_activity
SendActivity(service_url, reply, o) ==
  IF o = "token_error"
    THEN [events |-> << [op |-> "bot_token", ok |-> FALSE] >>, raised |-> TRUE]
    ELSE [events |-> << [op |-> "bot_token", ok |-> TRUE],
                        [op |-> "post", url |-> service_url, activity |-> reply,
                         outcome |-> o] >>,
          raised |-> (o = "transport_error")]

NotSent == [events |-> <<>>, raised |-> FALSE]

\* variant: a text reply is posted whether or not there is a callback address
SendTextReply_Always(body, text, o) ==
  SendActivity(body.serviceUrl, CreateReply(body, text), o)

\* bot_handler.py 131-136
SendTextReply(body, text, o) ==
  IF body.serviceUrl # ""
    THEN SendActivity(body.serviceUrl, CreateReply(body, text), o)
    ELSE NotSent

\* bot_handler.py 122-129
SendTyping(body, o) ==
  IF body.serviceUrl # ""
    THEN SendActivity(body.serviceUrl,
                      [CreateReply(body, "") EXCEPT !.type = "typing", !.text = None], o)
    ELSE NotSent

\* variant: a card whose button does not carry the link
SendSignInCard_NoLink(body, link, o) ==
  IF body.serviceUrl # ""
    THEN SendActivity(body.serviceUrl,
           [CreateReply(body, "") EXCEPT !.attachments =
              << [contentType |-> "application/vnd.microsoft.card.hero",
                  buttons |-> << [type |-> "signin", value |-> None] >>] >>], o)
    ELSE NotSent

\* bot_handler.py 424-449
SendSignInCard(body, link, o) ==
  IF body.serviceUrl # ""
    THEN SendActivity(body.serviceUrl,
           [CreateReply(body, "") EXCEPT !.attachments =
              << [contentType |-> "application/vnd.microsoft.card.hero",
                  buttons |-> << [type |-> "signin", value |-> link] >>] >>], o)
    ELSE NotSent

\* bot_handler.py 55-62: the request's connector builds its client on the
\* first token acquisition
UseConnector(used) ==
  /\ connector_app' = IF used THEN "app" ELSE connector_app
  /\ bot_apps' = IF used /\ connector_app = None THEN bot_apps + 1 ELSE bot_apps

\* bot_handler.py 452-462
FormatBotResponse(r) ==
  IF r.status # "completed" \/ r.assistant_answer = None
    THEN IF r.error # None THEN r.error ELSE "rephrase"
    ELSE IF r.tool_evidence # <<>> THEN "answer_with_footer" ELSE "answer"

(***************************************************************************)
(* Channel Token Store Client (bot_handler.py 149-229).                    *)
(***************************************************************************)
VaultAnswers ==
  [status : {200}, token : VaultTokens \cup {NullToken}]
  \cup [status : {404, 500}, token : {NullToken}]
  \cup [status : {500}, token : VaultTokens]

\* no answer: the GET raised (transport failure or a body that is no JSON)
NoVaultAnswer == [status |-> 0, token |-> NullToken]

\* variant: only 404 means "no token"; any other status is read like a 200
GetUserTokenResult_OnlyNotFound(answer) ==
  IF answer.status = 404 THEN NullToken ELSE answer.token

\* bot_handler.py 191-202
GetUserTokenResult(answer) ==
  IF answer.status = 200 THEN answer.token
  ELSE IF answer.status = 404 THEN NullToken
  ELSE NullToken

SignInAnswers ==
  [status : {200}, signInLink : {None, "link_1"}]
  \cup [status : {500}, signInLink : {None, "link_1"}]

NoSignInAnswer == [status |-> 0, signInLink |-> None]

\* bot_handler.py 220-229
GetSignInResourceResult(answer) ==
  IF answer.status = 200 THEN answer.signInLink ELSE None

(***************************************************************************)
(* POST /api/messages: post_messages (main.py 292-314) and                 *)
(* handle_bot_message (bot_handler.py 236-405).  An exception that leaves  *)
(* handle_bot_message is no ImportError, so it leaves post_messages too.   *)
(***************************************************************************)
\* variant: an acknowledgment that carries the agent's result in its body
Ok200_WithBody == HttpResponse(200, "envelope", NoDetail, agent_response, NoEntitlement)

Ok200 == HttpResponse(200, "empty", NoDetail, NoResponse, NoEntitlement)
BadRequest == HttpResponse(400, "empty", NoDetail, NoResponse, NoEntitlement)

botRest == <<jwks_cache, spa_obo_app, keyVars, inVars, user>>

BotReceive ==
  /\ pc = "idle"
  /\ served < MaxRequests
  /\ served' = served + 1
  /\ correlation_id' = served + 1
  /\ path' = "bot"
  /\ pc' = "bot_start"
  /\ \E a \in Activities : activity' = a
  /\ UNCHANGED <<procVars, keyVars, request, botLoc, agentLoc, trace, resp, user,
                 entitlement, obo_token>>
  /\ UNCHANGED sideVars

\* variant: an activity of another type is answered with "bad request"
Bot_Dispatch_RejectsOther ==
  /\ path = "bot" /\ pc = "bot_start"
  /\ IF ~activity.json \/ activity.type \notin {"message", "conversationUpdate"}
       THEN /\ resp' = BadRequest
            /\ pc' = "done"
            /\ UNCHANGED <<question, magic_code, member_idx>>
     ELSE IF activity.type = "message"
       THEN /\ question' = QuestionOf(activity)
            /\ magic_code' = MagicCodeOf(QuestionOf(activity))
            /\ pc' = IF QuestionOf(activity) = <<>> THEN "send_prompt" ELSE "get_user_token"
            /\ UNCHANGED <<resp, member_idx>>
     ELSE /\ pc' = "greet"
          /\ member_idx' = 1
          /\ UNCHANGED <<resp, question, magic_code>>
  /\ UNCHANGED <<botRest, obo_apps, bot_apps, agentLoc, trace, entitlement, obo_token,
                 user_token, connector_app, sign_in_link, exc>>
  /\ UNCHANGED sideVars

\* bot_handler.py 252-296: everything before the first await
Bot_Dispatch ==
  /\ path = "bot" /\ pc = "bot_start"
  /\ IF ~activity.json
       THEN /\ resp' = BadRequest
            /\ pc' = "done"
            /\ UNCHANGED <<question, magic_code, member_idx>>
     ELSE IF activity.type = "message"
       THEN /\ question' = QuestionOf(activity)
            /\ magic_code' = MagicCodeOf(QuestionOf(activity))
            /\ pc' = IF QuestionOf(activity) = <<>> THEN "send_prompt" ELSE "get_user_token"
            /\ UNCHANGED <<resp, member_idx>>
     ELSE IF activity.type = "conversationUpdate"
       THEN /\ pc' = "greet"
            /\ member_idx' = 1
            /\ UNCHANGED <<resp, question, magic_code>>
     ELSE /\ resp' = Ok200
          /\ pc' = "done"
          /\ UNCHANGED <<question, magic_code, member_idx>>
  /\ UNCHANGED <<botRest, obo_apps, bot_apps, agentLoc, trace, entitlement, obo_token,
                 user_token, connector_app, sign_in_link, exc>>
  /\ UNCHANGED sideVars

\* a text reply followed by "return Response(status_code=200)"
ReplyAndReturn(text) ==
  /\ \E o \in SendOutcomes :
       LET r == SendTextReply(activity, text, o)
       IN /\ trace' = trace \o r.events
          /\ UseConnector(r.events # <<>>)
          /\ resp' = IF r.raised THEN Unhandled ELSE Ok200
  /\ pc' = "done"
  /\ UNCHANGED <<botRest, obo_apps, agentLoc, entitlement, obo_token, user_token,
                 magic_code, sign_in_link, exc, member_idx, question>>

\* bot_handler.py 275-277
Bot_SendPrompt ==
  /\ path = "bot" /\ pc = "send_prompt"
  /\ ReplyAndReturn("prompt")
  /\ UNCHANGED sideVars

\* bot_handler.py 298-303 with get_user_token (161-202)
Bot_GetUserToken ==
  /\ path = "bot" /\ pc = "get_user_token"
  /\ UseConnector(TRUE)
  /\ \/ \E answer \in VaultAnswers :
          /\ trace' = trace \o << [op |-> "bot_token", ok |-> TRUE],
                                  [op |-> "get_user_token", code |-> magic_code,
                                   answer |-> answer] >>
          /\ user_token' = GetUserTokenResult(answer)
          /\ pc' = IF GetUserTokenResult(answer) = NullToken THEN "get_sign_in_resource"
                   ELSE IF magic_code # <<>> THEN "send_signed_in"
                   ELSE "send_typing"
          /\ UNCHANGED resp
     \/ /\ trace' = Append(trace, [op |-> "bot_token", ok |-> FALSE])
        /\ resp' = Unhandled
        /\ pc' = "done"
        /\ UNCHANGED user_token
     \/ /\ trace' = trace \o << [op |-> "bot_token", ok |-> TRUE],
                                [op |-> "get_user_token", code |-> magic_code,
                                 answer |-> NoVaultAnswer] >>
        /\ resp' = Unhandled
        /\ pc' = "done"
        /\ UNCHANGED user_token
  /\ UNCHANGED <<botRest, obo_apps, agentLoc, entitlement, obo_token, magic_code,
                 sign_in_link, exc, member_idx, question>>
  /\ UNCHANGED sideVars

\* bot_handler.py 305-310 with get_sign_in_resource (204-229)
Bot_GetSignInResource ==
  /\ path = "bot" /\ pc = "get_sign_in_resource"
  /\ UseConnector(TRUE)
  /\ \/ \E answer \in SignInAnswers :
          /\ trace' = trace \o << [op |-> "bot_token", ok |-> TRUE],
                                  [op |-> "get_sign_in_resource",
                                   answer |-> answer] >>
          /\ sign_in_link' = GetSignInResourceResult(answer)
          /\ pc' = IF GetSignInResourceResult(answer) # None THEN "send_sign_in_card"
                   ELSE "send_not_configured"
          /\ UNCHANGED resp
     \/ /\ trace' = Append(trace, [op |-> "bot_token", ok |-> FALSE])
        /\ resp' = Unhandled
        /\ pc' = "done"
        /\ UNCHANGED sign_in_link
     \/ /\ trace' = trace \o << [op |-> "bot_token", ok |-> TRUE],
                                [op |-> "get_sign_in_resource",
                                 answer |-> NoSignInAnswer] >>
        /\ resp' = Unhandled
        /\ pc' = "done"
        /\ UNCHANGED sign_in_link
  /\ UNCHANGED <<botRest, obo_apps, agentLoc, entitlement, obo_token, user_token,
                 magic_code, exc, member_idx, question>>
  /\ UNCHANGED sideVars

\* bot_handler.py 311-312, 318
Bot_SendSignInCard ==
  /\ path = "bot" /\ pc = "send_sign_in_card"
  /\ \E o \in SendOutcomes :
       LET r == SendSignInCard(activity, sign_in_link, o)
       IN /\ trace' = trace \o r.events
          /\ UseConnector(r.events # <<>>)
          /\ resp' = IF r.raised THEN Unhandled ELSE Ok200
  /\ pc' = "done"
  /\ UNCHANGED <<botRest, obo_apps, agentLoc, entitlement, obo_token, user_token,
                 magic_code, sign_in_link, exc, member_idx, question>>
  /\ UNCHANGED sideVars

\* bot_handler.py 313-318
Bot_SendNotConfigured ==
  /\ path = "bot" /\ pc = "send_not_configured"
  /\ ReplyAndReturn("not_configured")
  /\ UNCHANGED sideVars

\* bot_handler.py 321-326
Bot_SendSignedIn ==
  /\ path = "bot" /\ pc = "send_signed_in"
  /\ ReplyAndReturn("signed_in")
  /\ UNCHANGED sideVars

\* bot_handler.py 331
Bot_SendTyping ==
  /\ path = "bot" /\ pc = "send_typing"
  /\ \E o \in SendOutcomes :
       LET r == SendTyping(activity, o)
       IN /\ trace' = trace \o r.events
          /\ UseConnector(r.events # <<>>)
          /\ IF r.raised
               THEN resp' = Unhandled /\ pc' = "done"
               ELSE pc' = "bot_obo" /\ UNCHANGED resp
  /\ UNCHANGED <<botRest, obo_apps, agentLoc, entitlement, obo_token, user_token,
                 magic_code, sign_in_link, exc, member_idx, question>>
  /\ UNCHANGED sideVars

\* variant: the text of the exception does not hold the detail
ExchangeException_NoDetailText(x) ==
  IF x.raised = "HTTPException"
    THEN Exception("HTTPException", FALSE)
    ELSE Exception("Exception", FALSE)

\* the exception exchange_token leaves the bot handler with (bot_handler.py
\* 338, 377-378): the text of an HTTPException holds its detail
ExchangeException(x) ==
  IF x.raised = "HTTPException"
    THEN Exception("HTTPException",
                   x.exception.detail.status = "obo_challenge"
                   \/ x.exception.detail.description = "desc_consent")
    ELSE Exception("Exception", FALSE)

\* variant: a failed exchange is tried once more
Bot_Obo_Retry ==
  /\ path = "bot" /\ pc = "bot_obo"
  /\ obo_apps' = obo_apps + 1
  /\ \E call \in OboCallOutcomes :
       /\ trace' = Append(trace, [op |-> "obo", cred |-> user_token, call |-> call])
       /\ IF Exchange(call).ok
            THEN /\ obo_token' = Exchange(call).access_token
                 /\ pc' = "bot_entitlement"
                 /\ UNCHANGED exc
            ELSE IF \E j \in 1..Len(trace) : trace[j].op = "obo"
              THEN /\ exc' = ExchangeException(Exchange(call))
                   /\ pc' = "bot_except"
                   /\ UNCHANGED obo_token
              ELSE UNCHANGED <<pc, exc, obo_token>>
  /\ UNCHANGED <<botRest, bot_apps, agentLoc, resp, entitlement, user_token, magic_code,
                 connector_app, sign_in_link, member_idx, question>>
  /\ UNCHANGED sideVars

\* bot_handler.py 337-339: a new OboTokenService, then exchange_token
Bot_Obo ==
  /\ path = "bot" /\ pc = "bot_obo"
  /\ obo_apps' = obo_apps + 1
  /\ \E call \in OboCallOutcomes :
       /\ trace' = Append(trace, [op |-> "obo", cred |-> user_token, call |-> call])
       /\ IF Exchange(call).ok
            THEN /\ obo_token' = Exchange(call).access_token
                 /\ pc' = "bot_entitlement"
                 /\ UNCHANGED exc
            ELSE /\ exc' = ExchangeException(Exchange(call))
                 /\ pc' = "bot_except"
                 /\ UNCHANGED obo_token
  /\ UNCHANGED <<botRest, bot_apps, agentLoc, resp, entitlement, user_token, magic_code,
                 connector_app, sign_in_link, member_idx, question>>
  /\ UNCHANGED sideVars

\* variant: an unreadable token yields the principal "unknown"
UnverifiedUpn_Unknown(token) == IF token.wf THEN "user_upn" ELSE "unknown"

\* bot_handler.py 344-351: principal and object id read without verification
UnverifiedUpn(token) == IF token.wf THEN "user_upn" ELSE ""
UnverifiedOid(token) == IF token.wf THEN "user_oid" ELSE ""

\* bot_handler.py 344-353
Bot_Entitlement ==
  /\ path = "bot" /\ pc = "bot_entitlement"
  /\ \E o \in EntitlementOutcomes :
       /\ trace' = Append(trace, [op |-> "entitlement", cred |-> None, outcome |-> o])
       /\ IF o = "raise"
            THEN /\ exc' = Exception("Exception", FALSE)
                 /\ pc' = "bot_except"
                 /\ UNCHANGED entitlement
            ELSE /\ entitlement' = GetEntitlement(o, UnverifiedUpn(user_token),
                                                  UnverifiedOid(user_token))
                 /\ pc' = "run_agent"
                 /\ UNCHANGED exc
  /\ UNCHANGED <<botRest, obo_apps, bot_apps, agentLoc, resp, obo_token, user_token,
                 magic_code, connector_app, sign_in_link, member_idx, question>>
  /\ UNCHANGED sideVars

\* bot_handler.py 374-375, 405
Bot_Reply ==
  /\ path = "bot" /\ pc = "agent_returned"
  /\ \E o \in SendOutcomes :
       LET r == SendTextReply(activity, FormatBotResponse(agent_response), o)
       IN /\ trace' = trace \o r.events
          /\ UseConnector(r.events # <<>>)
          /\ IF r.raised
               THEN /\ exc' = Exception("Exception", FALSE)
                    /\ pc' = "bot_except"
                    /\ UNCHANGED resp
               ELSE /\ resp' = Ok200
                    /\ pc' = "done"
                    /\ UNCHANGED exc
  /\ UNCHANGED <<botRest, obo_apps, agentLoc, entitlement, obo_token, user_token,
                 magic_code, sign_in_link, member_idx, question>>
  /\ UNCHANGED sideVars

\* bot_handler.py 377-390, 405: the handler of the try block, entered also by
\* an exception that left run_agent
Bot_Except ==
  /\ path = "bot" /\ pc \in {"bot_except", "agent_raised"}
  /\ \E o \in SendOutcomes :
       LET consent == pc = "bot_except" /\ exc.consent
           r == SendTextReply(activity, IF consent THEN "consent" ELSE "apology", o)
       IN /\ trace' = trace \o r.events
          /\ UseConnector(r.events # <<>>)
          /\ resp' = IF r.raised THEN Unhandled ELSE Ok200
  /\ pc' = "done"
  /\ UNCHANGED <<botRest, obo_apps, agentLoc, entitlement, obo_token, user_token,
                 magic_code, sign_in_link, exc, member_idx, question>>
  /\ UNCHANGED sideVars

\* bot_handler.py 392-405: one turn of the loop over membersAdded
Bot_Greet ==
  /\ path = "bot" /\ pc = "greet"
  /\ IF member_idx > Len(activity.membersAdded)
       THEN /\ resp' = Ok200
            /\ pc' = "done"
            /\ UNCHANGED <<trace, connector_app, bot_apps, member_idx>>
     ELSE IF activity.membersAdded[member_idx] = activity.recipient
       THEN /\ member_idx' = member_idx + 1
            /\ UNCHANGED <<trace, connector_app, bot_apps, resp, pc>>
     ELSE \E o \in SendOutcomes :
            LET r == SendTextReply(activity, "greeting", o)
            IN /\ trace' = trace \o r.events
               /\ UseConnector(r.events # <<>>)
               /\ IF r.raised
                    THEN resp' = Unhandled /\ pc' = "done" /\ UNCHANGED member_idx
                    ELSE member_idx' = member_idx + 1 /\ UNCHANGED <<resp, pc>>
  /\ UNCHANGED <<botRest, obo_apps, agentLoc, entitlement, obo_token, user_token,
                 magic_code, sign_in_link, exc, question>>
  /\ UNCHANGED sideVars

\* the transport response is sent and the handler's locals are dropped
Respond ==
  /\ pc = "done"
  /\ path' = "idle"
  /\ pc' = "idle"
  /\ request' = NoRequest
  /\ activity' = NoActivity
  /\ correlation_id' = 0
  /\ trace' = <<>>
  /\ resp' = NoHttpResponse
  /\ user' = NoUser
  /\ entitlement' = NoEntitlement
  /\ obo_token' = None
  /\ conversation_id' = None
  /\ agent_response' = NoResponse
  /\ user_token' = NullToken
  /\ magic_code' = <<>>
  /\ question' = <<>>
  /\ connector_app' = None
  /\ sign_in_link' = None
  /\ exc' = NoException
  /\ member_idx' = 0
  /\ UNCHANGED <<procVars, keyVars, served>>
  /\ UNCHANGED sideVars

(***************************************************************************)
(* The event loop.  Every request is a coroutine on the one thread of the  *)
(* loop.  A coroutine runs until it starts a network call; an awaited call *)
(* gives the thread back to the loop until the answer is there, a call     *)
(* made without "await" keeps the thread until it returns.                 *)
(***************************************************************************)
NetworkCalls ==
  {"signing_keys", "obo_exchange", "bot_token", "agent_api", "bot_connector",
   "token_vault"}

\* httpx.AsyncClient requests are awaited (auth.py 51 and 55,
\* foundry_agent_service.py 178 and 266, bot_handler.py 104, 186 and 215);
\* acquire_token_on_behalf_of (auth.py 207), acquire_token_silent and
\* acquire_token_for_client (bot_handler.py 71-78) are plain calls
Awaited(call) == call \notin {"obo_exchange", "bot_token"}

\* coroutine t runs up to its next network call
Loop_Call(t, call) ==
  /\ running = 0
  /\ waiting[t] = None
  /\ waiting' = [waiting EXCEPT ![t] = call]
  /\ running' = IF Awaited(call) THEN 0 ELSE t
  /\ UNCHANGED <<procVars, keyVars, reqVars, claimVars>>

\* the answer of t's call is there and t goes on
Loop_Answer(t) ==
  /\ waiting[t] # None
  /\ running \in {0, t}
  /\ waiting' = [waiting EXCEPT ![t] = None]
  /\ running' = 0
  /\ UNCHANGED <<procVars, keyVars, reqVars, claimVars>>

(***************************************************************************)
(* Principal and object id of a claim set: TokenClaims.__init__            *)
(* (auth.py 65-77) on the SPA path, the unverified read of                 *)
(* handle_bot_message (bot_handler.py 344-351) on the bot path.  A claim   *)
(* is absent (None), empty or has a value.                                 *)
(***************************************************************************)
ClaimSets ==
  [preferred_username : {None, "", "pu_name"}, upn : {None, "", "upn_name"},
   oid_uri : {None, "", "uri_id"}, oid : {None, "", "oid_id"}]

NoClaims == [preferred_username |-> None, upn |-> None, oid_uri |-> None, oid |-> None]
NoPrincipal == [upn |-> None, oid |-> None]

\* Python's "a or b" on strings: a unless a is None or empty
Or(a, b) == IF a # None /\ a # "" THEN a ELSE b

\* dict.get(key, default): the default only when the key is missing
Get(v, default) == IF v = None THEN default ELSE v

\* auth.py 67-76
ClaimsUpn(c) == Or(c.preferred_username, Or(c.upn, "unknown"))
ClaimsOid(c) == Or(c.oid_uri, Or(c.oid, "unknown"))

\* bot_handler.py 347-348
UnverifiedClaimsUpn(c) == Get(c.upn, Get(c.preferred_username, ""))
UnverifiedClaimsOid(c) == Get(c.oid, "")

\* auth.py 65-77
TokenClaims_Init ==
  /\ spa_principal = NoPrincipal
  /\ spa_principal' = [upn |-> ClaimsUpn(claims), oid |-> ClaimsOid(claims)]
  /\ UNCHANGED <<procVars, keyVars, reqVars, loopVars, claims, bot_principal>>

\* bot_handler.py 344-351
Bot_UnverifiedClaims ==
  /\ bot_principal = NoPrincipal
  /\ bot_principal' = [upn |-> UnverifiedClaimsUpn(claims),
                       oid |-> UnverifiedClaimsOid(claims)]
  /\ UNCHANGED <<procVars, keyVars, reqVars, loopVars, claims, spa_principal>>

(***************************************************************************)
(* SpecKeys: concurrent callers of _get_signing_keys.                      *)
(***************************************************************************)
KeysCall(c) ==
  /\ kpc[c] \in {"idle", "returned", "failed"}
  /\ calls_started < MaxCalls
  /\ GetSigningKeys_Enter(c)
  /\ UNCHANGED <<spa_obo_app, obo_apps, bot_apps, reqVars>>
  /\ UNCHANGED sideVars

InitKeyCalls ==
  /\ kpc = [c \in Callers |-> "idle"]
  /\ kret = [c \in Callers |-> None]
  /\ knet = [c \in Callers |-> 0]
  /\ kwarm = [c \in Callers |-> FALSE]
  /\ ever_returned = FALSE
  /\ disc_fetches = 0
  /\ jwks_fetches = 0
  /\ calls_started = 0

InitProcess ==
  /\ jwks_cache = None
  /\ spa_obo_app = None
  /\ obo_apps = 0
  /\ bot_apps = 0

InitRequest ==
  /\ served = 0
  /\ path = "idle"
  /\ pc = "idle"
  /\ request = NoRequest
  /\ activity = NoActivity
  /\ trace = <<>>
  /\ resp = NoHttpResponse
  /\ user = NoUser
  /\ entitlement = NoEntitlement
  /\ obo_token = None
  /\ conversation_id = None
  /\ agent_response = NoResponse
  /\ user_token = NullToken
  /\ magic_code = <<>>
  /\ question = <<>>
  /\ correlation_id = 0
  /\ connector_app = None
  /\ sign_in_link = None
  /\ exc = NoException
  /\ member_idx = 0

InitLoop ==
  /\ waiting = [t \in Callers |-> None]
  /\ running = 0

InitClaims ==
  /\ claims = NoClaims
  /\ spa_principal = NoPrincipal
  /\ bot_principal = NoPrincipal

Init == InitProcess /\ InitKeyCalls /\ InitRequest /\ InitLoop /\ InitClaims

NextKeys ==
  \/ \E c \in Callers : KeysCall(c)
  \/ \E c \in Callers : GetSigningKeys_Discovery(c)
  \/ \E c \in Callers : GetSigningKeys_Jwks(c)
  \/ \E c \in Callers : GetSigningKeys_Return(c)

SpecKeys == Init /\ [][NextKeys]_vars

Next ==
  \/ SpaReceive
  \/ GetCurrentUser_Begin
  \/ \E c \in Callers : GetSigningKeys_Discovery(c)
  \/ \E c \in Callers : GetSigningKeys_Jwks(c)
  \/ \E c \in Callers : GetSigningKeys_Return(c)
  \/ GetCurrentUser_KeysFailed
  \/ GetCurrentUser_Validate
  \/ PostAgent_Entitlement
  \/ PostAgent_Obo
  \/ RunAgent_CreateConversation
  \/ RunAgent_Responses
  \/ PostAgent_Return
  \/ PostAgent_AgentRaised
  \/ BotReceive
  \/ Bot_Dispatch
  \/ Bot_SendPrompt
  \/ Bot_GetUserToken
  \/ Bot_GetSignInResource
  \/ Bot_SendSignInCard
  \/ Bot_SendNotConfigured
  \/ Bot_SendSignedIn
  \/ Bot_SendTyping
  \/ Bot_Obo
  \/ Bot_Entitlement
  \/ Bot_Reply
  \/ Bot_Except
  \/ Bot_Greet
  \/ Respond

Spec == Init /\ [][Next]_vars

(***************************************************************************)
(* SpecLoop: coroutines of concurrent requests on the event loop.          *)
(***************************************************************************)
NextLoop ==
  \/ \E t \in Callers : \E call \in NetworkCalls : Loop_Call(t, call)
  \/ \E t \in Callers : Loop_Answer(t)

SpecLoop == Init /\ [][NextLoop]_vars

(***************************************************************************)
(* SpecClaims: the two reads of principal and object id, for every claim   *)
(* set.                                                                    *)
(***************************************************************************)
InitAnyClaims ==
  /\ InitProcess /\ InitKeyCalls /\ InitRequest /\ InitLoop
  /\ claims \in ClaimSets
  /\ spa_principal = NoPrincipal
  /\ bot_principal = NoPrincipal

NextClaims ==
  \/ TokenClaims_Init
  \/ Bot_UnverifiedClaims

SpecClaims == InitAnyClaims /\ [][NextClaims]_vars

(***************************************************************************)
(* Properties.                                                             *)
(***************************************************************************)

\* C1 (as stated): whatever fails while a bot activity is handled, an
\* exception included, the bot path answers HTTP 200 with an empty body.
C1_BotAlwaysAnswers200 ==
  (path = "bot" /\ pc = "done" /\ activity.json) => resp = Ok200

\* C2 (as stated): on the SPA path and on the bot path alike, every OBO
\* exchange of a request is called with a credential that passed the gateway's
\* validation (signature, expiry, issuer, audience) earlier in that request.
C2_OboOnlyAfterValidation ==
  \A i \in 1..Len(trace) :
    trace[i].op = "obo" =>
      /\ user # NoUser
      /\ trace[i].cred = user.raw_token

\* C2 (amended): on the SPA path every OBO exchange is called with the
\* credential of the request, which passed get_current_user in that request:
\* its kid names a cached key, it is RS256, correctly signed, unexpired, and its
\* issuer and audience are allow-listed.  On the bot path the exchange is called
\* with the token the token vault returned in that request, and the gateway
\* has validated nothing.  A downstream credential exists only after an exchange.
C2_SpaOboOnlyAfterValidation ==
  /\ \A i \in 1..Len(trace) :
       trace[i].op = "obo" =>
         IF path = "spa"
           THEN LET cred == trace[i].cred
                IN /\ user # NoUser
                   /\ cred = user.raw_token
                   /\ cred = request.token
                   /\ cred.wf
                   /\ cred.kid \in JwksKeys(jwks_cache)
                   /\ cred.alg = "RS256" /\ cred.sig /\ ~cred.exp
                   /\ cred.iss \in ValidIssuers
                   /\ cred.aud \in ValidAudiences
           ELSE /\ path = "bot"
                /\ user = NoUser
                /\ trace[i].cred = user_token
                /\ user_token \in VaultTokens
  /\ obo_token # None => \E i \in 1..Len(trace) : trace[i].op = "obo"

C2_Witness ==
  /\ path = "spa"
  /\ obo_token # None
  /\ \E i \in 1..Len(trace) : trace[i].op = "obo" /\ trace[i].cred = request.token

\* C3 (as stated): for an unexpired credential correctly signed by a cached
\* key, get_current_user succeeds exactly when the issuer is one of the three
\* allow-listed issuers and the audience one of the three allow-listed
\* audiences, and rejects with 401 otherwise.
C3_AllowListsDecide ==
  ( /\ path = "spa" /\ request.auth = "bearer"
    /\ pc \notin {"get_current_user", "gcu_keys"}
    /\ kpc[1] = "returned"
    /\ request.token.wf
    /\ request.token.kid \in JwksKeys(kret[1])
    /\ request.token.alg = "RS256" /\ request.token.sig /\ ~request.token.exp )
  => /\ (user # NoUser) <=> ( /\ request.token.iss \in ValidIssuers
                              /\ request.token.aud \in ValidAudiences )
     /\ user = NoUser => (pc = "done" /\ resp.status = 401)

\* C4: a well-formed credential whose kid matches no key of the key set is
\* rejected with 401 (key not found) by get_current_user, and validate_token
\* gives the same outcome for it, whatever its claims; the request ends with
\* no identity, no OBO exchange and no call of the agent.
C4_UnknownKeyRejected ==
  ( /\ path = "spa" /\ request.auth = "bearer"
    /\ pc \notin {"get_current_user", "gcu_keys"}
    /\ kpc[1] = "returned"
    /\ request.token.wf
    /\ request.token.kid \notin JwksKeys(kret[1]) )
     => /\ pc = "done"
        /\ resp = HTTPException(401, Detail(None, "key_not_found", None, None))
        /\ user = NoUser /\ obo_token = None /\ agent_response = NoResponse
        /\ \A i \in 1..Len(trace) :
             trace[i].op \notin {"obo", "create_conversation", "responses"}
        /\ ValidateTokenOutcome(request.token, kret[1]) = "key_not_found"
        /\ ValidationError(ValidateTokenOutcome(request.token, kret[1])).status = 401

C4_Witness ==
  /\ path = "spa" /\ pc = "done"
  /\ kpc[1] = "returned" /\ kret[1] = "jwks1"
  /\ request.token.wf /\ request.token.kid = "kidB"
  /\ request.token.alg = "RS256" /\ request.token.sig /\ ~request.token.exp
  /\ request.token.iss = "iss_v2" /\ request.token.aud = "aud_api"
  /\ resp.status = 401

\* C5 (as stated): with the cache empty at the start, among calls of
\* _get_signing_keys that do not fail at most one performs network requests.
C5_FetchAtMostOnce ==
  \A c1, c2 \in Callers :
    ( /\ knet[c1] > 0 /\ kpc[c1] # "failed"
      /\ knet[c2] > 0 /\ kpc[c2] # "failed" ) => c1 = c2

\* C5 (amended): every call of _get_signing_keys performs the fetch at most
\* once, one discovery request and then one key-set request, so N calls perform
\* at most N fetches; calls that start before the first one has filled the
\* cache each perform their own.
C5_FetchAtMostOncePerCall ==
  /\ \A c \in Callers :
       /\ knet[c] <= 2
       /\ kpc[c] = "discovery" => knet[c] = 0
       /\ kpc[c] = "jwks" => knet[c] = 1
       /\ kpc[c] = "closing" => knet[c] = 2
  /\ disc_fetches <= calls_started
  /\ jwks_fetches <= disc_fetches

C5_Witness ==
  \E c1, c2 \in Callers :
    /\ c1 # c2
    /\ kpc[c1] = "returned" /\ knet[c1] = 2 /\ ~kwarm[c1]
    /\ kpc[c2] = "returned" /\ knet[c2] = 2 /\ ~kwarm[c2]
    /\ disc_fetches = 2 /\ jwks_fetches = 2

\* C6: once some call of _get_signing_keys has returned the key set, every
\* call that starts later returns the cached key set at once, with no network
\* request.
C6_WarmCallsUseCache ==
  \A c \in Callers :
    kwarm[c] => /\ kpc[c] = "returned"
                /\ knet[c] = 0
                /\ kret[c] \in JwksDocs

C6_Witness ==
  \E c \in Callers :
    /\ kwarm[c] /\ kpc[c] = "returned" /\ kret[c] \in JwksDocs
    /\ calls_started = MaxCalls

\* C7: when the discovery request or the key-set request of a cold-cache
\* fetch fails, the failure ends the call without a second attempt, the cache
\* stays empty, and the request is rejected with no identity, no OBO exchange
\* and no call of the agent.
C7_FetchFailureRejects ==
  ( /\ path = "spa" /\ request.auth = "bearer"
    /\ pc \in {"gcu_keys", "done"}
    /\ kpc[1] = "failed" )
  => /\ jwks_cache = None
     /\ knet[1] \in {1, 2}
     /\ user = NoUser /\ obo_token = None /\ agent_response = NoResponse
     /\ \A i \in 1..Len(trace) :
          trace[i].op \notin {"obo", "create_conversation", "responses"}
     /\ pc = "done" => (resp.status >= 400 /\ resp.kind # "envelope")

C7_Witness ==
  /\ path = "spa" /\ pc = "done"
  /\ kpc[1] = "failed" /\ knet[1] = 2
  /\ resp = Unhandled

\* C8: when the identity provider returns no access token, exchange_token
\* raises 401 obo_challenge carrying the provider's description if the error
\* code is interaction_required, and 500 obo_error for any other code; the SPA
\* path answers with that exception unchanged.
C8_ChallengeNotError ==
  /\ \A result \in OboResults :
       result.access_token = None =>
         LET x == ExchangeToken(result).exception
             description == IF result.error_description = None
                              THEN "No description" ELSE result.error_description
         IN IF result.error = "interaction_required"
              THEN /\ x.status = 401
                   /\ x.detail.status = "obo_challenge"
                   /\ x.detail.description = description
              ELSE /\ x.status = 500
                   /\ x.detail.status = "obo_error"
  /\ ( /\ path = "spa" /\ pc = "done" /\ trace # <<>>
       /\ trace[Len(trace)].op = "obo"
       /\ ~trace[Len(trace)].call.raised )
     => LET result == trace[Len(trace)].call.result
        IN /\ resp.kind = "detail"
           /\ IF result.error = "interaction_required"
                THEN /\ resp.status = 401
                     /\ resp.detail.status = "obo_challenge"
                     /\ resp.detail.description =
                          IF result.error_description = None THEN "No description"
                          ELSE result.error_description
                ELSE /\ resp.status = 500
                     /\ resp.detail.status = "obo_error"

C8_Witness ==
  /\ path = "spa" /\ pc = "done" /\ trace # <<>>
  /\ trace[Len(trace)].op = "obo"
  /\ trace[Len(trace)].call.result.error = "interaction_required"
  /\ trace[Len(trace)].call.result.error_description = "desc"
  /\ resp.status = 401 /\ resp.detail.status = "obo_challenge"

\* C9: an AgentResponse returned by run_agent, and the envelope of a SPA
\* answer, carries no assistant_answer unless its status is "completed".
C9_AnswerOnlyWhenCompleted ==
  /\ (agent_response # NoResponse /\ agent_response.status # "completed")
       => agent_response.assistant_answer = None
  /\ (resp.kind = "envelope" /\ resp.envelope.status # "completed")
       => resp.envelope.assistant_answer = None

C9_Witness ==
  /\ path = "spa" /\ pc = "done"
  /\ resp.kind = "envelope"
  /\ resp.envelope.status = "incomplete"
  /\ resp.envelope.error = "ended_with_status"

\* C10 (as stated): no failure of an agent call (HTTP status, timeout,
\* connection or transport error, malformed body) leaves run_agent as an
\* exception; each is captured into the AgentResponse, so a SPA request that
\* reached the agent is answered with an envelope.
C10_RunAgentNeverRaises ==
  /\ pc # "agent_raised"
  /\ ( /\ path = "spa" /\ pc = "done"
       /\ \E i \in 1..Len(trace) : trace[i].op \in {"create_conversation", "responses"} )
     => resp.kind = "envelope"

\* C11: on the SPA path, when a call of the agent API times out, run_agent
\* returns and the request can complete; its answer is the envelope with status
\* "timeout", the error set and no assistant answer.
C11_SpaTimeoutReported ==
  ( /\ path = "spa"
    /\ \E i \in 1..Len(trace) :
         /\ trace[i].op \in {"create_conversation", "responses"}
         /\ trace[i].outcome = "timeout" )
  => /\ pc \in {"agent_returned", "done"}
     /\ agent_response.status = "timeout"
     /\ agent_response.error # None
     /\ agent_response.assistant_answer = None
     /\ pc = "agent_returned" => ENABLED PostAgent_Return
     /\ pc = "done" => /\ resp.status = 200
                       /\ resp.kind = "envelope"
                       /\ resp.envelope.status = "timeout"
                       /\ resp.envelope.error # None
                       /\ resp.envelope.assistant_answer = None

C11_Witness ==
  /\ path = "spa" /\ pc = "done"
  /\ trace # <<>>
  /\ trace[Len(trace)].op = "responses"
  /\ trace[Len(trace)].outcome = "timeout"
  /\ resp.kind = "envelope" /\ resp.envelope.status = "timeout"

\* C12 (as stated): on the bot path, when a call of the agent API times out,
\* every text reply delivered to the user is the generic apology.
C12_BotTimeoutApology ==
  ( /\ path = "bot"
    /\ \E i \in 1..Len(trace) :
         /\ trace[i].op \in {"create_conversation", "responses"}
         /\ trace[i].outcome = "timeout" )
  => \A j \in 1..Len(trace) :
       ( /\ trace[j].op = "post" /\ trace[j].outcome = "sent"
         /\ trace[j].activity.type = "message" )
         => trace[j].activity.text = "apology"

\* C13 (as stated): on the bot path, for a message activity, a turn that does
\* not end in an answer sends the user no failure text other than the prompt
\* for a question, the re-consent instruction or the generic apology; the texts
\* of the sign-in flow and of an answer aside, no other text is delivered.
C13_BotFailureTexts ==
  (path = "bot" /\ activity.type = "message")
  => \A j \in 1..Len(trace) :
       ( /\ trace[j].op = "post" /\ trace[j].outcome = "sent"
         /\ trace[j].activity.type = "message" )
         => trace[j].activity.text \in
              {"prompt", "consent", "apology",
               "answer", "answer_with_footer", "rephrase",
               "signed_in", "not_configured", ""}

\* C14: on the bot path, after an OBO exchange that the provider answered
\* with interaction_required and no access token, the agent is not called and
\* the only text reply posted is the re-consent instruction; it is posted
\* whenever the turn ends with its acknowledgment and the activity has a
\* callback address.
C14_BotConsentReply ==
  ( /\ path = "bot"
    /\ \E i \in 1..Len(trace) :
         /\ trace[i].op = "obo"
         /\ ~trace[i].call.raised
         /\ trace[i].call.result.access_token = None
         /\ trace[i].call.result.error = "interaction_required" )
  => /\ pc \in {"bot_except", "done"}
     /\ obo_token = None
     /\ agent_response = NoResponse
     /\ \A j \in 1..Len(trace) :
          /\ trace[j].op \notin {"create_conversation", "responses"}
          /\ (trace[j].op = "post" /\ trace[j].activity.type = "message")
               => trace[j].activity.text = "consent"
     /\ (pc = "done" /\ resp.status = 200 /\ activity.serviceUrl # "")
          => \E j \in 1..Len(trace) :
               /\ trace[j].op = "post"
               /\ trace[j].activity.text = "consent"

C14_Witness ==
  /\ path = "bot" /\ pc = "done" /\ resp.status = 200
  /\ \E i \in 1..Len(trace) :
       /\ trace[i].op = "obo"
       /\ trace[i].call.result.error = "interaction_required"
       /\ trace[i].call.result.error_description = "desc"
  /\ trace # <<>>
  /\ trace[Len(trace)].op = "post"
  /\ trace[Len(trace)].outcome = "sent"
  /\ trace[Len(trace)].activity.text = "consent"

\* C15: on the bot path, a message whose trimmed text is exactly 6 digits is
\* passed to the token-store lookup as the confirmation code; neither the OBO
\* exchange nor the agent is called in that turn, and when the lookup returns
\* a token the only reply is the signed-in text.
C15_MagicCodeSignIn ==
  ( /\ path = "bot" /\ activity.json /\ activity.type = "message"
    /\ activity.text # MissingText
    /\ Len(Strip(activity.text)) = 6
    /\ \A k \in 1..Len(Strip(activity.text)) : Strip(activity.text)[k] \in Digits
    /\ pc # "bot_start" )
  => /\ magic_code = Strip(activity.text)
     /\ obo_token = None /\ agent_response = NoResponse
     /\ \A j \in 1..Len(trace) :
          /\ trace[j].op \notin {"obo", "create_conversation", "responses"}
          /\ trace[j].op = "get_user_token" => trace[j].code = Strip(activity.text)
     /\ user_token # NullToken
          => /\ pc \in {"send_signed_in", "done"}
             /\ \A j \in 1..Len(trace) :
                  trace[j].op = "post" => trace[j].activity.text = "signed_in"
             /\ (pc = "done" /\ resp.status = 200 /\ activity.serviceUrl # "")
                  => \E j \in 1..Len(trace) : trace[j].op = "post"

C15_Witness ==
  /\ path = "bot" /\ pc = "done" /\ resp.status = 200
  /\ activity.text = <<" ", "4", "8", "2", "9", "1", "3", " ">>
  /\ user_token # NullToken
  /\ trace # <<>>
  /\ trace[Len(trace)].op = "post"
  /\ trace[Len(trace)].outcome = "sent"
  /\ trace[Len(trace)].activity.text = "signed_in"

\* C16: on the bot path, when the token-store lookup returns no token and the
\* sign-in-link fetch returns a URL, every reply posted in that turn is a card
\* with exactly one sign-in action whose value is that URL, and neither the OBO
\* exchange nor the agent is called.
C16_SignInCard ==
  ( /\ path = "bot" /\ pc \in {"send_sign_in_card", "done"}
    /\ sign_in_link # None )
  => /\ user_token = NullToken
     /\ obo_token = None /\ agent_response = NoResponse
     /\ \A j \in 1..Len(trace) :
          /\ trace[j].op \notin {"obo", "create_conversation", "responses"}
          /\ trace[j].op = "post"
               => /\ trace[j].activity.text = ""
                  /\ Len(trace[j].activity.attachments) = 1
                  /\ Len(trace[j].activity.attachments[1].buttons) = 1
                  /\ trace[j].activity.attachments[1].buttons[1].type = "signin"
                  /\ trace[j].activity.attachments[1].buttons[1].value = sign_in_link
     /\ (pc = "done" /\ resp.status = 200 /\ activity.serviceUrl # "")
          => \E j \in 1..Len(trace) : trace[j].op = "post"

C16_Witness ==
  /\ path = "bot" /\ pc = "done" /\ resp.status = 200
  /\ sign_in_link = "link_1"
  /\ trace # <<>>
  /\ trace[Len(trace)].op = "post"
  /\ trace[Len(trace)].outcome = "sent"
  /\ trace[Len(trace)].activity.attachments[1].buttons[1].value = "link_1"

\* C17: every reply posted for an inbound activity, text reply, typing
\* indicator or sign-in card, has the activity's recipient as its sender, the
\* activity's sender as its recipient, the activity's conversation, and the
\* activity's id as its reply target.
C17_ReplyEnvelope ==
  path = "bot" =>
    \A j \in 1..Len(trace) :
      trace[j].op = "post"
        => /\ trace[j].activity.from = activity.recipient
           /\ trace[j].activity.recipient = activity.from
           /\ trace[j].activity.conversation = activity.conversation
           /\ trace[j].activity.replyToId = activity.id

C17_Witness ==
  /\ path = "bot"
  /\ \E i, j \in 1..Len(trace) :
       /\ trace[i].op = "post" /\ trace[i].activity.type = "typing"
       /\ trace[j].op = "post" /\ trace[j].activity.type = "message"
       /\ trace[j].activity.from = "bot" /\ trace[j].activity.recipient = "user_1"
       /\ trace[j].activity.replyToId = "act_1"

\* C18: on the bot path the transport response never has the agent's result
\* or a reply text in its body, and every reply is posted to the callback
\* address of the inbound activity.
C18_BotAnswerOutOfBand ==
  path = "bot" =>
    /\ resp.kind \in {None, "empty", "server_error"}
    /\ resp.envelope = NoResponse
    /\ resp.detail = NoDetail
    /\ \A j \in 1..Len(trace) :
         trace[j].op = "post"
           => /\ trace[j].url = activity.serviceUrl
              /\ activity.serviceUrl # ""

C18_Witness ==
  /\ path = "bot" /\ pc = "done"
  /\ agent_response.status = "completed"
  /\ agent_response.assistant_answer # None
  /\ resp.status = 200 /\ resp.kind = "empty"
  /\ trace # <<>>
  /\ trace[Len(trace)].op = "post"
  /\ trace[Len(trace)].outcome = "sent"
  /\ trace[Len(trace)].activity.text \in {"answer", "answer_with_footer"}

\* C19 (as stated): on the bot path the transport acknowledgment is produced
\* before, or independently of, the work of the turn: a turn in which a token
\* lookup, an OBO exchange, an agent call or a reply delivery has been made
\* ends with the acknowledgment, whatever became of that work.
C19_BotAckIndependent ==
  ( /\ path = "bot" /\ activity.json /\ pc = "done"
    /\ \E j \in 1..Len(trace) :
         trace[j].op \in {"get_user_token", "obo", "create_conversation",
                          "responses", "post"} )
  => resp.status = 200

\* C20 (as stated): a reply delivery that fails, by a non-success status of
\* the POST, by a transport error of the POST or by a failed acquisition of the
\* bot-connector token, leaves the handler where a delivered reply leaves it:
\* no exception reaches the handler's except clause or leaves the handler.
C20_SendFailureSwallowed ==
  (path = "bot" /\ trace # <<>>)
  => LET last == trace[Len(trace)]
     IN /\ (last.op = "post" /\ last.outcome # "sent")
             => (pc # "bot_except" /\ resp # Unhandled)
        /\ ( /\ last.op = "bot_token" /\ ~last.ok
             /\ activity.type = "message" /\ question = <<>> )
             => resp # Unhandled

\* C21: the token-vault client maps the vault's status to a value and never
\* to an exception: get_user_token yields the stored token on 200 and nothing
\* on 404 or any other status, get_sign_in_resource yields the link on 200
\* and nothing otherwise; after an answer with a non-200 status the handler
\* goes on (to the sign-in flow) and the request has not failed.
C21_VaultStatusNeverRaises ==
  [][ (path = "bot" /\ trace' # <<>>) =>
        LET e == trace'[Len(trace')] IN
          /\ (pc = "get_user_token" /\ e.op = "get_user_token"
                /\ e.answer # NoVaultAnswer) =>
               /\ resp' = NoHttpResponse
               /\ user_token' = (IF e.answer.status = 200 THEN e.answer.token
                                 ELSE NullToken)
               /\ e.answer.status # 200 => pc' = "get_sign_in_resource"
               /\ pc' \in {"get_sign_in_resource", "send_signed_in", "send_typing"}
          /\ (pc = "get_sign_in_resource" /\ e.op = "get_sign_in_resource"
                /\ e.answer # NoSignInAnswer) =>
               /\ resp' = NoHttpResponse
               /\ sign_in_link' = (IF e.answer.status = 200 THEN e.answer.signInLink
                                   ELSE None)
               /\ e.answer.status # 200 => pc' = "send_not_configured"
               /\ pc' \in {"send_sign_in_card", "send_not_configured"} ]_vars

\* the vault answered 500 with a body and the handler is about to ask for the
\* sign-in link
C21_Witness ==
  /\ path = "bot" /\ trace # <<>>
  /\ trace[Len(trace)].op = "get_user_token"
  /\ trace[Len(trace)].answer.status = 500
  /\ trace[Len(trace)].answer.token # NullToken
  /\ pc = "get_sign_in_resource"
  /\ user_token = NullToken

\* C22: on the SPA path a failed entitlement lookup does not abort the
\* request: the hint becomes the default (authorized, no representative code,
\* no role), the on-behalf-of exchange is still attempted, the agent is still
\* invoked when the exchange succeeds, and the default hint is the
\* entitlement block of the response.
C22_SpaEntitlementFailureContinues ==
  (path = "spa" /\ \E j \in 1..Len(trace) :
                     trace[j].op = "entitlement" /\ trace[j].outcome = "raise") =>
    LET default == [upn |-> user.upn, oid |-> user.oid, rep_code |-> None,
                    role |-> None, is_authorized |-> TRUE]
        Has(op) == \E j \in 1..Len(trace) : trace[j].op = op
    IN /\ entitlement = default
       /\ pc # "spa_obo" => Has("obo")
       /\ (obo_token # None /\ pc \notin {"spa_obo", "run_agent"}) =>
            (Has("create_conversation") \/ Has("responses"))
       /\ (pc = "done" /\ Has("responses")
            /\ trace[Len(trace)].outcome \in {"ok", "http_status_error", "timeout"}) =>
            /\ resp.status = 200
            /\ resp.entitlement = default

\* the lookup failed and the agent's completed answer was returned with the
\* default hint
C22_Witness ==
  /\ path = "spa" /\ pc = "done"
  /\ \E j \in 1..Len(trace) : trace[j].op = "entitlement" /\ trace[j].outcome = "raise"
  /\ resp.status = 200
  /\ resp.envelope.status = "completed"
  /\ resp.entitlement.is_authorized
  /\ resp.entitlement.rep_code = None

\* C23: on the bot path a failed entitlement lookup never aborts the request:
\* once the handler has finished, the agent has been invoked for the request
\* (its answer is what gets delivered; only the hint is degraded).
C23_BotEntitlementFailureContinues ==
  (path = "bot" /\ pc = "done"
    /\ \E j \in 1..Len(trace) : trace[j].op = "entitlement" /\ trace[j].outcome = "raise") =>
    /\ \E j \in 1..Len(trace) : trace[j].op \in {"create_conversation", "responses"}
    /\ \A j \in 1..Len(trace) :
         (trace[j].op = "post" /\ trace[j].outcome = "sent") =>
           trace[j].activity.text # "apology"

\* C24: the entitlement hint is advisory on both paths: whatever the lookup
\* returned (authorized or not, with or without a representative code), the
\* on-behalf-of exchange and the agent invocation proceed as for any other
\* hint; the step after a lookup that returned depends on nothing in the hint.
C24_HintNeverChangesFlow ==
  (path \in {"spa", "bot"} /\ entitlement # NoEntitlement) =>
    LET Has(op) == \E j \in 1..Len(trace) : trace[j].op = op
        invoked == Has("create_conversation") \/ Has("responses")
    IN /\ resp.status \notin {401, 403}
            \/ (path = "spa" /\ Has("obo") /\ obo_token = None)
       /\ path = "spa" =>
            /\ pc \in {"spa_obo", "run_agent", "responses", "agent_returned",
                       "agent_raised", "done"}
            /\ pc # "spa_obo" => Has("obo")
            /\ (obo_token # None /\ pc \notin {"spa_obo", "run_agent"}) => invoked
       /\ path = "bot" =>
            /\ Has("obo") /\ obo_token # None
            /\ pc \in {"run_agent", "responses", "agent_returned", "agent_raised",
                       "bot_except", "done"}
            /\ pc # "run_agent" => invoked

\* the lookup said "not authorized" and the agent's completed answer was
\* returned all the same
C24_Witness ==
  /\ path = "spa" /\ pc = "done"
  /\ entitlement # NoEntitlement
  /\ ~entitlement.is_authorized
  /\ resp.status = 200
  /\ resp.envelope.status = "completed"
  /\ resp.entitlement = entitlement

\* C25: the SPA path runs its steps in the order validate, entitlement
\* lookup, on-behalf-of exchange, agent invocation.  A rejected token or a
\* failed exchange ends the request with an error status and without any call
\* of the agent, and every call of the agent carries the downstream
\* credential that the successful exchange of this same request returned for
\* the caller's own token.
C25_SpaStepOrder ==
  path = "spa" =>
    LET Rank(op) == IF op = "entitlement" THEN 1
                    ELSE IF op = "obo" THEN 2
                    ELSE IF op = "create_conversation" THEN 3 ELSE 4
        Agent(j) == trace[j].op \in {"create_conversation", "responses"}
    IN /\ \A i, j \in 1..Len(trace) : i < j => Rank(trace[i].op) <= Rank(trace[j].op)
       /\ trace # <<>> => /\ user # NoUser
                          /\ user.raw_token = request.token
                          /\ trace[1].op = "entitlement"
       /\ (user = NoUser /\ pc = "done") =>
            /\ trace = <<>>
            /\ resp.status \in {401, 500}
            /\ resp # Unhandled => resp.status = 401
       /\ \A i \in 1..Len(trace) :
            (trace[i].op = "obo" /\ ~Exchange(trace[i].call).ok) =>
              /\ i = Len(trace)
              /\ pc = "done"
              /\ resp.status \in {401, 500}
              /\ resp.kind = "detail"
       /\ \A j \in 1..Len(trace) :
            Agent(j) =>
              /\ trace[j].cred # None
              /\ \E i \in 1..(j - 1) :
                   /\ trace[i].op = "obo"
                   /\ trace[i].cred = request.token
                   /\ Exchange(trace[i].call).ok
                   /\ Exchange(trace[i].call).access_token = trace[j].cred

\* the second request of the process reached the agent with the credential
\* of its own exchange
C25_Witness ==
  /\ path = "spa" /\ served = 2
  /\ trace # <<>>
  /\ trace[Len(trace)].op = "responses"
  /\ trace[Len(trace)].cred = obo_token
  /\ \E i \in 1..Len(trace) : trace[i].op = "obo" /\ Exchange(trace[i].call).ok

\* C26: on both paths the on-behalf-of exchange is attempted at most once for
\* one inbound request; a failed exchange is the last one of its request.
C26_OboAtMostOnce ==
  /\ Cardinality({j \in 1..Len(trace) : trace[j].op = "obo"}) <= 1
  /\ \A j \in 1..Len(trace) :
       (trace[j].op = "obo" /\ ~Exchange(trace[j].call).ok) =>
         /\ obo_token = None
         /\ pc \in {"done", "bot_except"}

\* a bot request whose only exchange failed has been answered
C26_Witness ==
  /\ path = "bot" /\ pc = "done"
  /\ \E j \in 1..Len(trace) : trace[j].op = "obo" /\ ~Exchange(trace[j].call).ok
  /\ Cardinality({j \in 1..Len(trace) : trace[j].op = "obo"}) = 1
  /\ resp = Ok200

\* C27: during the life of the process at most one confidential-client
\* instance is constructed for on-behalf-of exchanges and at most one for
\* authenticating to the bot connector.
C27_OneClientPerProcess ==
  /\ obo_apps <= 1
  /\ bot_apps <= 1

\* C28: while one request waits on a network call (signing-key fetch,
\* on-behalf-of exchange, bot-connector token acquisition, agent API, bot
\* connector, token vault), every other request can go on: one that is ready
\* can start its next call, one whose answer is there can resume.
C28_WaitingNeverBlocksOthers ==
  \A t \in Callers :
    waiting[t] # None =>
      \A u \in Callers \ {t} :
        /\ waiting[u] = None => ENABLED (\E call \in NetworkCalls : Loop_Call(u, call))
        /\ waiting[u] # None => ENABLED Loop_Answer(u)

\* C29: on the SPA happy path (valid credential, successful exchange, a
\* response of the agent that is completed and holds one answer and one tool
\* call) the envelope has status "completed", the agent's answer, exactly one
\* tool-evidence entry, the hint that the lookup returned as its entitlement
\* block, and the correlation id generated for this request.
C29_SpaHappyPathEnvelope ==
  (/\ path = "spa" /\ pc = "done"
   /\ trace # <<>>
   /\ trace[Len(trace)].op = "responses"
   /\ trace[Len(trace)].outcome = "ok"
   /\ trace[Len(trace)].body.status = "completed"
   /\ LET out == trace[Len(trace)].body.output
      IN /\ Cardinality({i \in 1..Len(out) : out[i] = "assistant_text"}) = 1
         /\ Cardinality({i \in 1..Len(out) :
              out[i] \in {"fabric_dataagent_preview_call", "tool_call",
                          "function_call", "fabric_other"}}) = 1) =>
    /\ resp.status = 200
    /\ resp.kind = "envelope"
    /\ resp.envelope.status = "completed"
    /\ resp.envelope.assistant_answer = "answer"
    /\ Len(resp.envelope.tool_evidence) = 1
    /\ resp.envelope.error = None
    /\ resp.envelope.correlation_id = correlation_id
    /\ correlation_id = served
    /\ resp.envelope.response_id = trace[Len(trace)].body.id
    /\ resp.entitlement = entitlement
    /\ trace[1].op = "entitlement"
    /\ trace[1].outcome # "raise" => resp.entitlement = GetEntitlement(trace[1].outcome,
                                                                     user.upn, user.oid)

\* the second request of the process got a completed envelope with one tool
\* call and the hint of a known user
C29_Witness ==
  /\ path = "spa" /\ pc = "done" /\ served = 2
  /\ trace # <<>>
  /\ trace[Len(trace)].op = "responses"
  /\ trace[Len(trace)].outcome = "ok"
  /\ trace[Len(trace)].body.status = "completed"
  /\ trace[Len(trace)].body.output = <<"fabric_dataagent_preview_call", "assistant_text">>
  /\ trace[1].outcome = "known"
  /\ resp.status = 200
  /\ Len(resp.envelope.tool_evidence) = 1
  /\ resp.entitlement.rep_code = "REP001"

\* C30: wherever the gateway derives the caller from a claim set, on the SPA
\* path and on the bot path alike, the principal name is preferred_username
\* when present and non-empty, else upn, else "unknown", and the object id is
\* the provider's object-identifier claim, else oid, else "unknown".
C30_PrincipalPrecedence ==
  LET Present(v) == v # None /\ v # ""
      upn == IF Present(claims.preferred_username) THEN claims.preferred_username
             ELSE IF Present(claims.upn) THEN claims.upn ELSE "unknown"
      oid == IF Present(claims.oid_uri) THEN claims.oid_uri
             ELSE IF Present(claims.oid) THEN claims.oid ELSE "unknown"
  IN /\ spa_principal # NoPrincipal => spa_principal = [upn |-> upn, oid |-> oid]
     /\ bot_principal # NoPrincipal => bot_principal = [upn |-> upn, oid |-> oid]

\* C31: on the bot path with a stored token and no confirmation code the
\* steps come in the order typing indicator, on-behalf-of exchange of the
\* user token, entitlement lookup, agent invocation without a conversation id
\* (a conversation is created first), one text reply; the agent is called
\* only after a successful exchange and with the credential it returned; a
\* token whose principal cannot be read gives an empty principal and object
\* id and the turn goes on.
C31_BotAnswerOrder ==
  (path = "bot" /\ user_token # NullToken /\ magic_code = <<>>) =>
    LET Rank(e) == IF e.op = "get_user_token" THEN 0
                   ELSE IF e.op = "post" /\ e.activity.type = "typing" THEN 1
                   ELSE IF e.op = "obo" THEN 2
                   ELSE IF e.op = "entitlement" THEN 3
                   ELSE IF e.op = "create_conversation" THEN 4
                   ELSE IF e.op = "responses" THEN 5
                   ELSE 6
        Steps == {j \in 1..Len(trace) : trace[j].op # "bot_token"}
        Sent == {j \in 1..Len(trace) :
                   /\ trace[j].op = "post" /\ trace[j].outcome = "sent"
                   /\ trace[j].activity.type = "message"}
    IN /\ \A i, j \in Steps : i < j => Rank(trace[i]) <= Rank(trace[j])
       /\ \A j \in Steps :
            /\ trace[j].op = "obo" =>
                 /\ trace[j].cred = user_token
                 /\ activity.serviceUrl # "" =>
                      \E i \in 1..(j - 1) : trace[i].op = "post"
                                            /\ trace[i].activity.type = "typing"
            /\ trace[j].op = "entitlement" =>
                 \E i \in 1..(j - 1) : trace[i].op = "obo" /\ Exchange(trace[i].call).ok
            /\ trace[j].op \in {"create_conversation", "responses"} =>
                 /\ \E i \in 1..(j - 1) :
                      /\ trace[i].op = "obo"
                      /\ Exchange(trace[i].call).ok
                      /\ Exchange(trace[i].call).access_token = trace[j].cred
                 /\ \E i \in 1..(j - 1) : trace[i].op = "entitlement"
            /\ trace[j].op = "responses" =>
                 \E i \in 1..(j - 1) : trace[i].op = "create_conversation"
                                       /\ trace[i].outcome = "ok"
       /\ Cardinality(Sent) <= 1
       /\ (pc = "done" /\ agent_response # NoResponse /\ activity.serviceUrl # ""
            /\ \A j \in 1..Len(trace) :
                 /\ trace[j].op = "bot_token" => trace[j].ok
                 /\ trace[j].op = "post" => trace[j].outcome # "transport_error") =>
            /\ resp = Ok200
            /\ Cardinality({j \in 1..Len(trace) :
                  trace[j].op = "post" /\ trace[j].activity.type = "message"}) = 1
            /\ trace[Len(trace)].op = "post"
            /\ trace[Len(trace)].activity.text = FormatBotResponse(agent_response)
       /\ (~user_token.wf /\ entitlement # NoEntitlement) =>
            /\ entitlement.upn = "" /\ entitlement.oid = ""
            /\ pc \in {"run_agent", "responses", "agent_returned", "agent_raised",
                       "bot_except", "done"}

\* the vault held a token that does not parse, the exchange succeeded, the
\* lookup ran with an empty principal and the agent's answer was posted
C31_Witness ==
  /\ path = "bot" /\ pc = "done" /\ resp = Ok200
  /\ user_token # NullToken /\ ~user_token.wf /\ magic_code = <<>>
  /\ entitlement # NoEntitlement /\ entitlement.upn = ""
  /\ agent_response # NoResponse /\ agent_response.status = "completed"
  /\ trace # <<>>
  /\ trace[Len(trace)].op = "post"
  /\ trace[Len(trace)].outcome = "sent"
  /\ trace[Len(trace)].activity.text = FormatBotResponse(agent_response)

\* C32: on the bot path a message activity whose text is missing, empty or
\* only whitespace ends with the acknowledgment, the only reply posted for it
\* is the prompt for a question, and no token-store lookup, sign-in-link
\* fetch, on-behalf-of exchange or agent call is made.
C32_EmptyTextPrompt ==
  ( /\ path = "bot" /\ activity.json /\ activity.type = "message"
    /\ \/ activity.text = MissingText
       \/ \A k \in 1..Len(activity.text) : activity.text[k] = " "
    /\ pc = "done" )
  => /\ resp = Ok200
     /\ \A j \in 1..Len(trace) :
          /\ trace[j].op \in {"bot_token", "post"}
          /\ trace[j].op = "post" => trace[j].activity.text = "prompt"
     /\ Cardinality({j \in 1..Len(trace) : trace[j].op = "post"}) <= 1
     /\ activity.serviceUrl # "" =>
          \E j \in 1..Len(trace) : trace[j].op = "post"

\* C33: on the bot path, when the token-store lookup returned no token and
\* the sign-in-link fetch returned no link, the turn ends with the
\* acknowledgment, the only reply posted is the "not configured" text, no card
\* is sent, and neither the on-behalf-of exchange nor the agent is called.
C33_NotConfiguredReply ==
  ( /\ path = "bot" /\ pc = "done"
    /\ \E j \in 1..Len(trace) :
         /\ trace[j].op = "get_sign_in_resource"
         /\ trace[j].answer # NoSignInAnswer
         /\ trace[j].answer.status # 200 \/ trace[j].answer.signInLink = None )
  => /\ resp = Ok200
     /\ user_token = NullToken
     /\ \A j \in 1..Len(trace) :
          /\ trace[j].op \notin {"obo", "create_conversation", "responses"}
          /\ trace[j].op = "post" =>
               /\ trace[j].activity.text = "not_configured"
               /\ trace[j].activity.attachments = <<>>
     /\ activity.serviceUrl # "" =>
          \E j \in 1..Len(trace) : trace[j].op = "post"

\* C34: on the bot path a conversationUpdate activity is always acknowledged;
\* when one of its added members is not the bot itself exactly one greeting
\* is posted for the activity, and when every added member is the bot, or no
\* member was added, nothing is posted.
C34_OneGreeting ==
  (path = "bot" /\ activity.json /\ activity.type = "conversationUpdate" /\ pc = "done")
  => LET others == {k \in 1..Len(activity.membersAdded) :
                      activity.membersAdded[k] # activity.recipient}
         posts == {j \in 1..Len(trace) : trace[j].op = "post"}
     IN /\ resp = Ok200
        /\ \A j \in posts : trace[j].activity.text = "greeting"
        /\ others = {} => trace = <<>>
        /\ (others # {} /\ activity.serviceUrl # "") => Cardinality(posts) = 1

\* C35: on the bot path an activity whose type is neither "message" nor
\* "conversationUpdate" is acknowledged with 200 and an empty body, and
\* nothing is done for it: no reply, no bot-connector token acquisition, no
\* token-store call, no on-behalf-of exchange, no agent call, no
\* confidential client built.
C35_OtherActivityOnlyAck ==
  [][ (path = "bot" /\ activity.json
        /\ activity.type \notin {"message", "conversationUpdate"}) =>
        /\ trace = <<>> /\ trace' = <<>>
        /\ pc = "bot_start" => (pc' = "done" /\ resp' = Ok200)
        /\ pc = "done" => resp = Ok200
        /\ pc \in {"bot_start", "done"}
        /\ UNCHANGED <<procVars, obo_token, user_token, agent_response, connector_app,
                       sign_in_link, entitlement>> ]_vars

\* a typing activity has been acknowledged
C35_Witness ==
  /\ path = "bot" /\ pc = "done"
  /\ activity.json /\ activity.type = "typing" /\ activity.serviceUrl = "svc"
  /\ resp = Ok200
  /\ trace = <<>>
  /\ connector_app = None

\* C36: the signing-key cache is written once and read-only afterwards: in
\* every execution, concurrent first calls that interleave at the fetch
\* included, a cache that holds a key set keeps that value for ever.
C36_CacheWriteOnce ==
  [][jwks_cache # None => jwks_cache' = jwks_cache]_vars

\* C37: on the bot path at most one reply of type message (a text reply or a
\* sign-in card; typing indicators do not count) is posted for one inbound
\* message activity, on every branch of the handler.
C37_AtMostOneReply ==
  (path = "bot" /\ activity.type = "message") =>
    Cardinality({j \in 1..Len(trace) :
                   trace[j].op = "post" /\ trace[j].activity.type = "message"}) <= 1

\* C38: on the bot path, for an activity without a callback address, the
\* text reply, the typing indicator and the sign-in card post nothing and
\* acquire no bot-connector token (the only acquisitions are those of the
\* token-store calls); a turn whose token-store lookup returned a token still
\* makes the on-behalf-of exchange, still calls the agent when the exchange
\* and the lookup of the hint succeeded, and ends with the acknowledgment;
\* the answer is posted nowhere.
C38_NoCallbackAddress ==
  (path = "bot" /\ activity.json /\ activity.serviceUrl = "") =>
    LET Has(op) == \E j \in 1..Len(trace) : trace[j].op = op
    IN /\ ~Has("post")
       /\ \A j \in 1..Len(trace) :
            trace[j].op = "bot_token" =>
              IF trace[j].ok
                THEN /\ j < Len(trace)
                     /\ trace[j + 1].op \in {"get_user_token", "get_sign_in_resource"}
                ELSE /\ j = Len(trace)
                     /\ pc = "done"
                     /\ user_token = NullToken
       /\ (user_token # NullToken /\ magic_code = <<>>) =>
            /\ pc \notin {"send_typing", "bot_obo"} => Has("obo")
            /\ (obo_token # None /\ entitlement # NoEntitlement /\ pc # "run_agent") =>
                 (Has("create_conversation") \/ Has("responses"))
            /\ resp \in {NoHttpResponse, Ok200}
            /\ pc = "done" => resp = Ok200

\* the agent answered a question of an activity without a callback address:
\* the turn was acknowledged and nothing was posted
C38_Witness ==
  /\ path = "bot" /\ pc = "done"
  /\ activity.json /\ activity.serviceUrl = ""
  /\ agent_response # NoResponse
  /\ agent_response.status = "completed"
  /\ agent_response.assistant_answer # None
  /\ resp = Ok200
  /\ \A j \in 1..Len(trace) : trace[j].op # "post"

\* C39: on the SPA path a request whose Authorization header is missing or
\* does not start with "Bearer " is rejected with 401 in the first step:
\* no signing-key fetch, entitlement lookup, on-behalf-of exchange or agent
\* call is made for it, and the signing-key cache keeps its value.
C39_NoBearerRejectedFirst ==
  [][ (path = "spa" /\ request.auth # "bearer") =>
        /\ pc \in {"get_current_user", "done"}
        /\ pc = "get_current_user" =>
             /\ pc' = "done"
             /\ resp'.status = 401
             /\ resp'.kind = "detail"
        /\ pc = "done" => resp.status = 401
        /\ trace = <<>> /\ trace' = <<>>
        /\ user = NoUser
        /\ UNCHANGED <<procVars, keyVars, entitlement, obo_token, agent_response>> ]_vars

\* the second request of the process came without a bearer credential and
\* was rejected; the cache filled by the first request is as it was
C39_Witness ==
  /\ path = "spa" /\ pc = "done" /\ served = 2
  /\ request.auth = "basic"
  /\ resp.status = 401
  /\ jwks_cache # None
  /\ trace = <<>>

\* C40: run_agent called with a conversation id creates no conversation and
\* returns that id in every result; called without one it creates exactly one
\* conversation, before the responses call, and returns the created id; when
\* the creation fails, run_agent returns a result of status error or timeout
\* without a conversation id and does not make the responses call.
C40_ConversationId ==
  (path \in {"spa", "bot"} /\ pc \in {"responses", "agent_returned", "agent_raised"}) =>
    LET supplied == IF path = "spa" THEN request.conversation_id ELSE None
        creates == {j \in 1..Len(trace) : trace[j].op = "create_conversation"}
        calls == {j \in 1..Len(trace) : trace[j].op = "responses"}
        returned == pc = "agent_returned"
    IN /\ supplied # None =>
            /\ creates = {}
            /\ returned => agent_response.conversation_id = supplied
       /\ supplied = None =>
            /\ Cardinality(creates) = 1
            /\ \A i \in creates : \A j \in calls : i < j
            /\ \A i \in creates :
                 IF trace[i].outcome = "ok"
                   THEN returned => agent_response.conversation_id = "conv_new"
                   ELSE /\ calls = {}
                        /\ returned
                        /\ agent_response.status \in {"error", "timeout"}
                        /\ agent_response.conversation_id = None

====
